---- MODULE Spec2Model ----
(***************************************************************************)
(* Model of the risk-scoring back end of risk-route-vision:               *)
(*   app/ml/model.py       model gateway (three lazily loaded roles),      *)
(*                         fallback heuristics, integrated score           *)
(*   app/routers/risk.py   the /score handler                              *)
(*   app/services/*.py     geofence, feature building, risk grid           *)
(*                                                                         *)
(* Numbers are fixed point.  Unless a definition says otherwise a real     *)
(* value x is held as the integer 1000*x ("milli").                        *)
(***************************************************************************)
EXTENDS Integers, Sequences, FiniteSets, TLC

VARIABLES
    handle,      \* role -> "None" | "dummy" | "model": _XGB_MODEL, _CAUSE_MODEL, _RATE_MODEL
    loads,       \* role -> number of joblib.load invocations so far (instrumentation)
    thresholds,  \* _VEHICLE_THRESHOLDS: [set, tab], set = FALSE while it is None
    res          \* what the last call received and returned

vars == <<handle, loads, thresholds, res>>

(***************************************************************************)
(* Bounds of the model.                                                    *)
(***************************************************************************)
MaxLoads == 3         \* joblib.load invocations in one run, all roles together
MaxPts == 2           \* route points of a gateway call

Roles == {"risk", "cause", "rate"}

\* ModelHandle states as the module globals hold them (model.py:95-97).
UNLOADED == "None"
FALLBACK == "dummy"
LOADED == "model"

\* What a candidate path holds: "none" no path given / variable unset,
\* "missing" no file there, "corrupt" a file joblib.load raises on,
\* "ok" a file joblib.load returns a model for.
PathStates == {"none", "missing", "corrupt", "ok"}
FileStates == {"missing", "corrupt", "ok"}

Exists(st) == st \in {"corrupt", "ok"}

(***************************************************************************)
(* Path selection shared by the three loaders (model.py:178-186, 214-220,  *)
(* 249-255): the argument, else the environment variable; then the default *)
(* location when that is None or names no file.                            *)
(***************************************************************************)
ChosenPathSkipCorrupt(exp, env, def) ==
    LET first == IF exp = "none" THEN [src |-> "env", st |-> env]
                 ELSE [src |-> "explicit", st |-> exp]
    IN  IF first.st # "ok"
        THEN [src |-> "default", st |-> def]
        ELSE first

ChosenPath(exp, env, def) ==
    LET first == IF exp = "none" THEN [src |-> "env", st |-> env]
                 ELSE [src |-> "explicit", st |-> exp]
    IN  IF first.st = "none" \/ ~Exists(first.st)
        THEN [src |-> "default", st |-> def]
        ELSE first

(***************************************************************************)
(* One loader call.  h is the role's global before the call.  The result   *)
(* gives the global after it, whether joblib.load was invoked, the path    *)
(* used and whether an exception leaves the loader.                        *)
(***************************************************************************)
LoadNoExcept(h, exp, env, def) ==
    IF h # UNLOADED /\ h # FALLBACK
    THEN [handle |-> h, invoked |-> 0, src |-> "cached", raised |-> FALSE]
    ELSE LET p == ChosenPath(exp, env, def)
         IN  IF Exists(p.st)
             THEN IF p.st = "ok"
                  THEN [handle |-> LOADED, invoked |-> 1, src |-> p.src, raised |-> FALSE]
                  ELSE [handle |-> h, invoked |-> 1, src |-> p.src, raised |-> TRUE]
             ELSE [handle |-> FALLBACK, invoked |-> 0, src |-> p.src, raised |-> FALSE]

LoadArtifact(h, exp, env, def) ==
    IF h # UNLOADED /\ h # FALLBACK
    THEN [handle |-> h, invoked |-> 0, src |-> "cached", raised |-> FALSE]
    ELSE LET p == ChosenPath(exp, env, def)
         IN  IF Exists(p.st)
             THEN IF p.st = "ok"
                  THEN [handle |-> LOADED, invoked |-> 1, src |-> p.src, raised |-> FALSE]
                  ELSE [handle |-> FALLBACK, invoked |-> 1, src |-> p.src, raised |-> FALSE]
             ELSE [handle |-> FALLBACK, invoked |-> 0, src |-> p.src, raised |-> FALSE]

load_xgboost_model(h, exp, env, def) == LoadArtifact(h, exp, env, def)
load_cause_classifier(h, exp, env, def) == LoadArtifact(h, exp, env, def)
load_segment_rate_model(h, exp, env, def) == LoadArtifact(h, exp, env, def)

LoaderOf(r, h, exp, env, def) ==
    CASE r = "risk" -> load_xgboost_model(h, exp, env, def)
      [] r = "cause" -> load_cause_classifier(h, exp, env, def)
      [] r = "rate" -> load_segment_rate_model(h, exp, env, def)

(***************************************************************************)
(* Small helpers.                                                          *)
(***************************************************************************)
Rep(n, v) == [i \in 1..n |-> v]

Clip(x, lo, hi) == IF x < lo THEN lo ELSE IF x > hi THEN hi ELSE x

Min2(a, b) == IF a <= b THEN a ELSE b

RECURSIVE SumSeq(_)
SumSeq(s) == IF Len(s) = 0 THEN 0 ELSE Head(s) + SumSeq(Tail(s))

\* A key a dict does not hold (dict.get then gives its default).
NoVal == -1000000

Get(v, default) == IF v = NoVal THEN default ELSE v

TabGet(tab, k, default) == IF k \in DOMAIN tab THEN tab[k] ELSE default

(***************************************************************************)
(* Vehicle thresholds (model.py:102-161).  The cached table is a function  *)
(* from names to milli thresholds; csv is the file at the path used: its   *)
(* state ("missing", "corrupt": a row that does not parse, "ok") and its   *)
(* rows [vehicle, threshold] in file order.                                *)
(***************************************************************************)
default_thresholds ==
    [k \in {"__GLOBAL__", "MOTORCYCLE", "THREE_WHEELER", "CAR", "BUS", "LORRY"} |->
        CASE k = "__GLOBAL__" -> 500
          [] k = "MOTORCYCLE" -> 450
          [] k = "THREE_WHEELER" -> 480
          [] k = "CAR" -> 500
          [] k = "BUS" -> 550
          [] k = "LORRY" -> 520]

NoThresholds == [set |-> FALSE, tab |-> <<>>]

\* vehicle_name_mapping (model.py:129-136).
vehicle_name_mapping ==
    [k \in {"Motor Cycle", "Three Wheeler", "Car", "Bus", "Lorry", "Van"} |->
        CASE k = "Motor Cycle" -> "MOTORCYCLE"
          [] k = "Three Wheeler" -> "THREE_WHEELER"
          [] k = "Car" -> "CAR"
          [] k = "Bus" -> "BUS"
          [] k = "Lorry" -> "LORRY"
          [] k = "Van" -> "VAN"]

\* vehicle.upper().replace(' ', '_') on the names the files here hold.
UpperUnderscore(vehicle) ==
    CASE vehicle = "motor cycle" -> "MOTOR_CYCLE"
      [] vehicle = "Motor Cycle" -> "MOTOR_CYCLE"
      [] vehicle = "motorcycle" -> "MOTORCYCLE"
      [] vehicle = "Three Wheeler" -> "THREE_WHEELER"
      [] vehicle = "three wheeler" -> "THREE_WHEELER"
      [] vehicle = "car" -> "CAR"
      [] vehicle = "Car" -> "CAR"
      [] vehicle = "Bus" -> "BUS"
      [] vehicle = "bus" -> "BUS"
      [] vehicle = "Lorry" -> "LORRY"
      [] vehicle = "Van" -> "VAN"
      [] OTHER -> vehicle

\* api_vehicle of one row (model.py:145).
ApiVehicle(vehicle) ==
    IF vehicle \in DOMAIN vehicle_name_mapping
    THEN vehicle_name_mapping[vehicle]
    ELSE UpperUnderscore(vehicle)

\* The dict the row loop builds (model.py:138-146): a later row replaces an
\* earlier one of the same key.
TableOfRows(rows) ==
    [k \in {ApiVehicle(rows[i].vehicle) : i \in 1..Len(rows)} |->
        LET last == CHOOSE i \in 1..Len(rows) :
                        /\ ApiVehicle(rows[i].vehicle) = k
                        /\ \A j \in (i + 1)..Len(rows) : ApiVehicle(rows[j].vehicle) # k
        IN  rows[last].threshold]

\* load_vehicle_thresholds that reads the file again whenever one is there.
LoadThresholdsReread(thr, csv) ==
    IF csv.st = "ok" THEN [set |-> TRUE, tab |-> TableOfRows(csv.rows)]
    ELSE IF thr.set THEN thr
    ELSE [set |-> TRUE, tab |-> default_thresholds]

load_vehicle_thresholds(thr, csv) ==
    IF thr.set THEN thr
    ELSE IF csv.st = "ok" THEN [set |-> TRUE, tab |-> TableOfRows(csv.rows)]
    ELSE [set |-> TRUE, tab |-> default_thresholds]

ThresholdFor(tab, vehicle) == TabGet(tab, vehicle, TabGet(tab, "__GLOBAL__", 500))

(***************************************************************************)
(* Fallback risk of one point (model.py:493-503), in units of 1e-7:        *)
(* min(1, max(0, (0.15*vf + 0.7*b + 0.15*wet) * time_factor)).             *)
(* vf, b, wet are milli; hour is NoVal when the features hold none.        *)
(***************************************************************************)
RushHours == {7, 8, 9, 17, 18, 19}

TimeFactor(hour) == IF hour # NoVal /\ hour \in RushHours THEN 12 ELSE 10

FallbackRiskClipFirst(vf, b, wet, hour) ==
    Clip(150 * vf + 700 * b + 150 * wet, 0, 1000000) * TimeFactor(hour)

FallbackRiskRushDiscount(vf, b, wet, hour) ==
    Clip((150 * vf + 700 * b + 150 * wet)
            * (IF hour # NoVal /\ hour \in RushHours THEN 8 ELSE 10), 0, 10000000)

FallbackRisk(vf, b, wet, hour) ==
    Clip((150 * vf + 700 * b + 150 * wet) * TimeFactor(hour), 0, 10000000)

\* 1.0 in the unit of FallbackRisk.
FallbackOne == 10000000

(***************************************************************************)
(* Threshold normalisation and curvature amplification of one raw          *)
(* prediction (model.py:529-545); p, t, c and the result are milli.        *)
(* Division is integer division (floor) on the milli grid; t is within     *)
(* [0,1].  The predictions are numpy scalars, so a zero divisor gives nan   *)
(* (0/0) or an infinity (x/0) and no exception; c is never negative.       *)
(***************************************************************************)
NaN == -2000000

BaseRisk(p, t) ==
    IF p >= t
    THEN 500 + (500 * (p - t)) \div (1000 - t)
    ELSE (500 * p) \div t

NormalizedRisk(p, t, c) ==
    IF p >= t /\ t = 1000 THEN (IF p = t THEN NaN ELSE 1000)
    ELSE IF p < t /\ t = 0 THEN 0
    ELSE Clip((BaseRisk(p, t) * (1000000 + 150 * c)) \div 1000000, 0, 1000)

PredictFailureRisk == 300

(***************************************************************************)
(* sigmoid (model.py:559-561) on the grid x = -10, -9.5, ..., 10, rounded  *)
(* to milli; x is milli.  Beyond the grid the value is 0 or 1 to that      *)
(* precision.                                                              *)
(***************************************************************************)
SigmoidTable ==
    << 0, 0, 0, 0, 0, 1, 1, 2, 2, 4, 7, 11, 18, 29, 47, 76, 119, 182, 269, 378,
       500,
       622, 731, 818, 881, 924, 953, 971, 982, 989, 993, 996, 998, 998, 999, 999,
       1000, 1000, 1000, 1000, 1000 >>

sigmoid(x) ==
    IF x < -10000 THEN 0
    ELSE IF x > 10000 THEN 1000
    ELSE SigmoidTable[((x + 10000) \div 500) + 1]

(***************************************************************************)
(* calculate_integrated_risk_score (model.py:564-613).  cause_probability  *)
(* and segment_rate are milli; the result is in micro points of the 0-100  *)
(* scale (100 points = 100000000).  The multipliers are hundredths.        *)
(***************************************************************************)
\* The multipliers with the professional-driver discounts left out.
VehicleMultiplierNoDiscount(v) ==
    CASE v = "MOTORCYCLE" -> 120
      [] v = "THREE_WHEELER" -> 110
      [] OTHER -> 100

VehicleMultiplier(v) ==
    CASE v = "MOTORCYCLE" -> 120
      [] v = "THREE_WHEELER" -> 110
      [] v = "CAR" -> 100
      [] v = "BUS" -> 85
      [] v = "LORRY" -> 90
      [] v = "VAN" -> 100
      [] OTHER -> 100

WeatherMultiplier(is_wet) == IF is_wet THEN 125 ELSE 100

HundredPoints == 100000000

IntegratedUnclipped(cause_probability, segment_rate, vehicle_type, is_wet) ==
    LET cause_component == sigmoid(5 * (cause_probability - 500))
        rate_component == Min2(1000, segment_rate * 20)
    IN  (6 * cause_component + 4 * rate_component)
            * VehicleMultiplier(vehicle_type) * WeatherMultiplier(is_wet)

calculate_integrated_risk_score(cause_probability, segment_rate, vehicle_type, is_wet) ==
    LET cause_component == sigmoid(5 * (cause_probability - 500))
        rate_component == Min2(1000, segment_rate * 20)
    IN  Clip((6 * cause_component + 4 * rate_component)
                * VehicleMultiplier(vehicle_type) * WeatherMultiplier(is_wet),
             0, HundredPoints)

(***************************************************************************)
(* The gateway calls.  Each operator is one Python function: it receives   *)
(* the globals it reads (h: role -> handle, thr: the threshold cache) and  *)
(* what the outside world answers during the call,                         *)
(*   io.view[r] = <<env, def>>  the files at role r's environment and      *)
(*                              default paths,                             *)
(*   io.out[r] = [ok, val]      model.predict of role r: val returned, or  *)
(*                              (ok = FALSE) an exception raised,          *)
(*   io.csv                     the threshold file,                        *)
(* and returns its results with the globals as it leaves them, the         *)
(* joblib.load invocations it made (inv) and whether an exception leaves   *)
(* the function (raised).                                                  *)
(*                                                                         *)
(* features f: vehicle, hour, curvKind ("absent" | "scalar" | "list"),     *)
(* curvS, curvL, wet (surface_wetness_prob), vf (vehicle_factor), isRain,  *)
(* precip; NoVal marks a key the dict does not hold.                       *)
(***************************************************************************)
NoInv == [r \in Roles |-> 0]

Raise(h, inv, thr) ==
    [raised |-> TRUE, norm |-> <<>>, raw |-> <<>>, rates |-> <<>>, causes |-> <<>>,
     h |-> h, inv |-> inv, thr |-> thr, calls |-> <<>>, spi_in |-> <<>>]

\* predict_incident_rate (model.py:272-300) once the loader has returned ld;
\* n = len(df).  calls lists the roles whose model.predict the call invoked,
\* in the order of the invocations.
RateAfterLoad(n, h, io, ld) ==
    LET h2 == [h EXCEPT !["rate"] = ld.handle]
        inv == [NoInv EXCEPT !["rate"] = ld.invoked]
    IN  IF ld.raised
        THEN [raised |-> TRUE, rates |-> <<>>, h |-> h2, inv |-> inv, calls |-> <<>>]
        ELSE IF ld.handle = FALLBACK
        THEN [raised |-> FALSE, rates |-> Rep(n, 0), h |-> h2, inv |-> inv, calls |-> <<>>]
        ELSE IF io.out["rate"].ok
        THEN [raised |-> FALSE, rates |-> io.out["rate"].val, h |-> h2, inv |-> inv,
              calls |-> <<"rate">>]
        ELSE [raised |-> FALSE, rates |-> Rep(n, 0), h |-> h2, inv |-> inv,
              calls |-> <<"rate">>]

predict_incident_rate(n, h, io) ==
    RateAfterLoad(n, h, io,
        load_segment_rate_model(h["rate"], "none", io.view["rate"][1], io.view["rate"][2]))

\* The curvature list the loaded branch amplifies with (model.py:523-525, 539).
CurvatureAt(f, n, idx) ==
    IF f.curvKind = "list"
    THEN IF idx <= Len(f.curvL) THEN f.curvL[idx] ELSE 0
    ELSE IF f.curvKind = "scalar" THEN f.curvS ELSE 0

\* The risk values of the dummy branch (model.py:491-503).
DummyScores(f, n) ==
    LET wet == Get(f.wet, 0)
        vf == Get(f.vf, 1000)
    IN  IF f.curvKind = "list"
        THEN [i \in 1..Len(f.curvL) |-> FallbackRisk(vf, f.curvL[i], wet, f.hour)]
        ELSE LET base == IF f.curvKind = "scalar" THEN f.curvS ELSE 100
             IN  Rep(n, FallbackRisk(vf, base, wet, f.hour))

\* The triple the dummy branch returns (model.py:502-503).
DummyResult(scores, h, inv, thr) ==
    [raised |-> FALSE, norm |-> scores, raw |-> Rep(Len(scores), 0),
     rates |-> Rep(Len(scores), 0), h |-> h, inv |-> inv, thr |-> thr, calls |-> <<>>]

\* The except branch of predict_segment_scores with the model made FALLBACK.
PredictFailureDemotes(f, n, h, io, thr) ==
    [raised |-> FALSE, norm |-> Rep(n, PredictFailureRisk), raw |-> Rep(n, 0),
     rates |-> Rep(n, 0), h |-> [h EXCEPT !["risk"] = FALLBACK], inv |-> NoInv, thr |-> thr,
     calls |-> <<"risk">>]

\* The except branch of predict_segment_scores (model.py:552-557).
PredictFailure(f, n, h, io, thr) ==
    [raised |-> FALSE, norm |-> Rep(n, PredictFailureRisk), raw |-> Rep(n, 0),
     rates |-> Rep(n, 0), h |-> h, inv |-> NoInv, thr |-> thr, calls |-> <<"risk">>]

\* The try body of predict_segment_scores once model.predict has returned,
\* the thresholds are loaded (thr2) and predict_incident_rate has returned ir
\* (model.py:518-550).
PredictLoadedRates(f, n, io, thr2, ir) ==
    LET predictions == io.out["risk"].val
        threshold == ThresholdFor(thr2.tab, f.vehicle)
    IN  IF ir.raised
        THEN [PredictFailure(f, n, ir.h, io, thr2) EXCEPT !.inv = ir.inv]
        ELSE [raised |-> FALSE,
              norm |-> [i \in 1..Len(predictions) |->
                          NormalizedRisk(predictions[i], threshold, CurvatureAt(f, n, i))],
              raw |-> predictions,
              rates |-> ir.rates, h |-> ir.h, inv |-> ir.inv, thr |-> thr2,
              calls |-> <<"risk">> \o ir.calls]

PredictLoaded(f, n, h, io, thr) ==
    PredictLoadedRates(f, n, io, load_vehicle_thresholds(thr, io.csv),
                       predict_incident_rate(n, h, io))

AddInv(inv, g) == [g EXCEPT !.inv = [r \in Roles |-> g.inv[r] + inv[r]]]

\* predict_segment_scores (model.py:474-557) once load_xgboost_model has
\* returned ld; n = len(coords).
SegmentScoresAfterLoad(f, n, h, io, thr, ld) ==
    LET h2 == [h EXCEPT !["risk"] = ld.handle]
        inv == [NoInv EXCEPT !["risk"] = ld.invoked]
    IN  IF ld.raised THEN Raise(h2, inv, thr)
        ELSE IF ld.handle = FALLBACK THEN DummyResult(DummyScores(f, n), h2, inv, thr)
        ELSE IF io.out["risk"].ok THEN AddInv(inv, PredictLoaded(f, n, h2, io, thr))
        ELSE AddInv(inv, PredictFailure(f, n, h2, io, thr))

predict_segment_scores(f, n, h, io, thr) ==
    SegmentScoresAfterLoad(f, n, h, io, thr,
        load_xgboost_model(h["risk"], "none", io.view["risk"][1], io.view["risk"][2]))

FallbackCause == "Potential risk due to road conditions"
UnknownCause == "Unknown Cause"

\* predict_cause_scores (model.py:448-472) once load_cause_classifier has
\* returned ld.  spi_in is the SPI_smoothed column of the frame the
\* classifier predicts on (model.py:337, 460-468).
CausesAfterLoad(spi_scores, h, io, ld) ==
    LET h2 == [h EXCEPT !["cause"] = ld.handle]
        inv == [NoInv EXCEPT !["cause"] = ld.invoked]
    IN  IF ld.raised
        THEN [raised |-> TRUE, causes |-> <<>>, h |-> h2, inv |-> inv,
              calls |-> <<>>, spi_in |-> <<>>]
        ELSE IF ld.handle = FALLBACK
        THEN [raised |-> FALSE, causes |-> Rep(Len(spi_scores), FallbackCause),
              h |-> h2, inv |-> inv, calls |-> <<>>, spi_in |-> <<>>]
        ELSE IF io.out["cause"].ok
        THEN [raised |-> FALSE, causes |-> io.out["cause"].val, h |-> h2, inv |-> inv,
              calls |-> <<"cause">>, spi_in |-> spi_scores]
        ELSE [raised |-> FALSE, causes |-> Rep(Len(spi_scores), UnknownCause),
              h |-> h2, inv |-> inv, calls |-> <<"cause">>, spi_in |-> spi_scores]

predict_cause_scores(f, n, spi_scores, h, io) ==
    CausesAfterLoad(spi_scores, h, io,
        load_cause_classifier(h["cause"], "none", io.view["cause"][1], io.view["cause"][2]))

\* is_wet of predict_with_cause (model.py:644).
IsWet(w) == w.isRain \/ Get(w.precip, 0) > 100

\* predict_with_cause from the integrated scores on (model.py:643-666): ss is
\* what predict_segment_scores returned, cs what predict_cause_scores did.
\* The scores are the integrated scores over 100, in units of 1e-8.
WithCauseIntegrated(n, w, vehicle_type, ss, cs) ==
    IF cs.raised THEN Raise(cs.h, [r \in Roles |-> ss.inv[r] + cs.inv[r]], ss.thr)
    ELSE [raised |-> FALSE,
          norm |-> [idx \in 1..n |->
                      calculate_integrated_risk_score(
                          IF idx <= Len(ss.raw) THEN ss.raw[idx] ELSE 500,
                          IF idx <= Len(ss.rates) THEN ss.rates[idx] ELSE 0,
                          vehicle_type, IsWet(w))],
          raw |-> ss.raw, rates |-> ss.rates, causes |-> cs.causes,
          h |-> cs.h, inv |-> [r \in Roles |-> ss.inv[r] + cs.inv[r]], thr |-> ss.thr,
          calls |-> ss.calls \o cs.calls, spi_in |-> cs.spi_in]

\* predict_with_cause handing the cause stage the normalized scores.
WithCauseNormalizedToCause(n, w, vehicle_type, features, io, ss) ==
    IF ss.raised THEN Raise(ss.h, ss.inv, ss.thr)
    ELSE WithCauseIntegrated(n, w, vehicle_type, ss,
                             predict_cause_scores(features, n, ss.norm, ss.h, io))

\* predict_with_cause once predict_segment_scores has returned ss
\* (model.py:640-641).
WithCauseAfterScores(n, w, vehicle_type, features, io, ss) ==
    IF ss.raised THEN Raise(ss.h, ss.inv, ss.thr)
    ELSE WithCauseIntegrated(n, w, vehicle_type, ss,
                             predict_cause_scores(features, n, ss.raw, ss.h, io))

\* predict_with_cause with its features dict built (model.py:630-638).
WithCauseFeatures(n, w, vehicle_type, features, h, io, thr) ==
    WithCauseAfterScores(n, w, vehicle_type, features, io,
                         predict_segment_scores(features, n, h, io, thr))

\* predict_with_cause (model.py:616-666).  w is the weather dict, which
\* becomes the features with vehicle_type and hour set (model.py:630-635).
predict_with_cause(n, w, vehicle_type, hour, h, io, thr) ==
    WithCauseFeatures(n, w, vehicle_type,
                      [w EXCEPT !.vehicle = vehicle_type, !.hour = hour], h, io, thr)

Init ==
    /\ handle = [r \in Roles |-> UNLOADED]
    /\ loads = [r \in Roles |-> 0]
    /\ thresholds = NoThresholds
    /\ res = [op |-> "none"]

TotalLoads == loads["risk"] + loads["rate"] + loads["cause"]

(***************************************************************************)
(* A direct call of one loader, with or without a path argument.           *)
(***************************************************************************)
LoadCommit(r, exp, env, def, ld) ==
    /\ TotalLoads + ld.invoked <= MaxLoads
    /\ handle' = [handle EXCEPT ![r] = ld.handle]
    /\ loads' = [loads EXCEPT ![r] = @ + ld.invoked]
    /\ res' = [op |-> "load", role |-> r, pre |-> handle[r],
               exp |-> exp, env |-> env, def |-> def,
               src |-> ld.src, invoked |-> ld.invoked, raised |-> ld.raised]
    /\ UNCHANGED thresholds

LoadCall(r, exp, env, def) ==
    LoadCommit(r, exp, env, def, LoaderOf(r, handle[r], exp, env, def))

(***************************************************************************)
(* A gateway call from a handler: the globals move as the call leaves      *)
(* them, res keeps the inputs and the returned lists.  returned is the     *)
(* value of the return statement: the tuple (scores, raw, rates) of        *)
(* predict_segment_scores (model.py:503, 550, 557), (scores, causes,       *)
(* rates) of predict_with_cause (model.py:666).                            *)
(***************************************************************************)
Commit(op, n, f, io, g, with_causes) ==
    /\ TotalLoads + g.inv["risk"] + g.inv["rate"] + g.inv["cause"] <= MaxLoads
    /\ handle' = g.h
    /\ loads' = [r \in Roles |-> loads[r] + g.inv[r]]
    /\ thresholds' = g.thr
    /\ res' = [op |-> op, n |-> n, f |-> f, out |-> io.out, raised |-> g.raised,
               norm |-> g.norm, raw |-> g.raw, rates |-> g.rates,
               causes |-> IF with_causes THEN g.causes ELSE <<>>,
               calls |-> g.calls,
               spi_in |-> IF with_causes THEN g.spi_in ELSE <<>>,
               returned |-> IF g.raised THEN <<>>
                            ELSE IF with_causes THEN <<g.norm, g.causes, g.rates>>
                            ELSE <<g.norm, g.raw, g.rates>>]

PredictSegmentScoresCall(f, n, io) ==
    Commit("predict_segment_scores", n, f, io,
           predict_segment_scores(f, n, handle, io, thresholds), FALSE)

PredictWithCauseCall(w, n, vehicle_type, hour, io) ==
    Commit("predict_with_cause", n, [w EXCEPT !.vehicle = vehicle_type, !.hour = hour], io,
           predict_with_cause(n, w, vehicle_type, hour, handle, io, thresholds), TRUE)

(***************************************************************************)
(* Inputs of the gateway specification.                                    *)
(***************************************************************************)
Threw == [ok |-> FALSE, val |-> <<>>]

Returned(v) == [ok |-> TRUE, val |-> v]

CauseAt(i) == IF i % 2 = 1 THEN "Speeding" ELSE "Overtaking"

OutsOf(r, n) ==
    CASE r = "risk" -> {Threw, Returned([i \in 1..n |-> (IF i % 2 = 1 THEN 700 ELSE 300)])}
      [] r = "rate" -> {Threw, Returned([i \in 1..n |-> (10 * i)])}
      [] r = "cause" -> {Threw, Returned([i \in 1..n |-> CauseAt(i)])}

\* Files a gateway call finds: none at all, a corrupt one at the environment
\* path, a loadable one at the default path.
NoFiles == <<"none", "missing">>
PredictViews == {NoFiles, <<"corrupt", "missing">>, <<"none", "ok">>}

\* A role that is LOADED never looks at its files.
ViewsOf(r) == IF handle[r] = LOADED THEN {NoFiles} ELSE PredictViews

NoCsv == [st |-> "missing", rows |-> <<>>]

IOs(V1, V2, V3, O1, O2, O3) ==
    { [view |-> [risk |-> v1, rate |-> v2, cause |-> v3],
       out |-> [risk |-> o1, rate |-> o2, cause |-> o3],
       csv |-> NoCsv] :
        v1 \in V1, v2 \in V2, v3 \in V3, o1 \in O1, o2 \in O2, o3 \in O3 }

\* Every model answers and no file is corrupt.
QuietViews(r) == ViewsOf(r) \ {<<"corrupt", "missing">>}

QuietIOs(n) ==
    IOs(QuietViews("risk"), QuietViews("rate"), QuietViews("cause"),
        OutsOf("risk", n) \ {Threw}, OutsOf("rate", n) \ {Threw}, OutsOf("cause", n) \ {Threw})

\* The weather dicts of the gateway specifications: a dry one with a
\* per-point curvature list, a rainy one without curvature.
DryWeather(n) ==
    [vehicle |-> "CAR", hour |-> NoVal, curvKind |-> "list", curvS |-> 0,
     curvL |-> [i \in 1..n |-> 400 * (i - 1)], wet |-> NoVal, vf |-> NoVal,
     isRain |-> FALSE, precip |-> 0]

RainWeather(n) ==
    [vehicle |-> "CAR", hour |-> NoVal, curvKind |-> "absent", curvS |-> 0,
     curvL |-> <<>>, wet |-> NoVal, vf |-> NoVal,
     isRain |-> TRUE, precip |-> 2500]

WeatherOf(n) == IF n % 2 = 1 THEN RainWeather(n) ELSE DryWeather(n)

(***************************************************************************)
(* Spec: the loaders.  Every loader is called with every combination of    *)
(* path argument, environment path and default path; the gateway calls     *)
(* run beside them on quiet inputs.                                        *)
(***************************************************************************)
Next ==
    \/ \E r \in Roles, exp \in PathStates, env \in PathStates, def \in FileStates :
            LoadCall(r, exp, env, def)
    \/ \E io \in QuietIOs(1) :
            PredictSegmentScoresCall([WeatherOf(1) EXCEPT !.vehicle = "BUS", !.hour = 8], 1, io)
    \/ \E io \in QuietIOs(1) :
            PredictWithCauseCall(WeatherOf(1), 1, "MOTORCYCLE", 8, io)

Spec == Init /\ [][Next]_vars

(***************************************************************************)
(* SpecGateway: the gateway calls under every combination of files found   *)
(* and model answers, beside loader calls without a path argument.         *)
(***************************************************************************)
NextGateway ==
    \/ \E r \in Roles, v \in PredictViews :
            LoadCall(r, "none", v[1], v[2])
    \/ \E n \in 1..MaxPts :
          \E io \in IOs(ViewsOf("risk"), ViewsOf("rate"), {NoFiles},
                        OutsOf("risk", n), OutsOf("rate", n), {Threw}) :
            PredictSegmentScoresCall([WeatherOf(n) EXCEPT !.vehicle = "BUS", !.hour = 8], n, io)
    \/ \E n \in 1..MaxPts :
          \E io \in IOs(ViewsOf("risk"), ViewsOf("rate"), ViewsOf("cause"),
                        OutsOf("risk", n), OutsOf("rate", n), OutsOf("cause", n)) :
            PredictWithCauseCall(WeatherOf(n), n, "MOTORCYCLE", 8, io)

SpecGateway == Init /\ [][NextGateway]_vars

(***************************************************************************)
(* SpecFallback: the dummy branch of predict_segment_scores as a function  *)
(* of its features.  The initial state draws the features; every call      *)
(* finds no loadable risk model and uses them with some hour.              *)
(***************************************************************************)
FallbackCurvatures(n) ==
    { [kind |-> "absent", s |-> 0, l |-> <<>>] }
        \cup { [kind |-> "scalar", s |-> c, l |-> <<>>] : c \in {0, 1000, 3142} }
        \cup { [kind |-> "list", s |-> 0, l |-> [i \in 1..n |-> c * i]] : c \in {0, 1571} }

FallbackFeatures(n) ==
    { [vehicle |-> "CAR", hour |-> NoVal, curvKind |-> c.kind, curvS |-> c.s,
       curvL |-> c.l, wet |-> wet, vf |-> vf, isRain |-> FALSE, precip |-> 0] :
        c \in FallbackCurvatures(n),
        wet \in {NoVal, 0, 500, 1000},
        vf \in {NoVal, -500, 1000, 1200, 3000} }

InitFallback ==
    /\ handle \in { [r \in Roles |-> IF r = "risk" THEN x ELSE UNLOADED] :
                        x \in {UNLOADED, FALLBACK} }
    /\ loads = [r \in Roles |-> 0]
    /\ thresholds = NoThresholds
    /\ \E n \in 1..MaxPts : \E f \in FallbackFeatures(n) :
            res = [op |-> "features", n |-> n, f |-> f]

NextFallback ==
    \E hour \in {NoVal, 0, 7, 9, 12, 17, 19, 23}, v \in {NoFiles, <<"corrupt", "missing">>} :
        \E io \in IOs({v}, {NoFiles}, {NoFiles}, {Threw}, {Threw}, {Threw}) :
            PredictSegmentScoresCall([res.f EXCEPT !.hour = hour], res.n, io)

SpecFallback == InitFallback /\ [][NextFallback]_vars

(***************************************************************************)
(* The /score handler (routers/risk.py:24-179) and what it calls.          *)
(* Coordinates are <<lat, lon>> in hundredths of a degree.                 *)
(***************************************************************************)
GINIGATHENA_BOUNDS == [min_lat |-> 700, max_lat |-> 750, min_lon |-> 8040, max_lon |-> 8090]

is_within_ginigathena(lat, lon) ==
    /\ GINIGATHENA_BOUNDS.min_lat <= lat /\ lat <= GINIGATHENA_BOUNDS.max_lat
    /\ GINIGATHENA_BOUNDS.min_lon <= lon /\ lon <= GINIGATHENA_BOUNDS.max_lon

\* The filter letting every coordinate through.
FilterKeepsAll(coordinates) == coordinates

filter_coordinates_in_ginigathena(coordinates) ==
    SelectSeq(coordinates, LAMBDA coord : is_within_ginigathena(coord[1], coord[2]))

\* arccos(num/den) in milliradians for the angle between v1 and v2, resolved
\* to the nearest multiple of 45 degrees; a zero vector gives num = 0.
AngleBetween(v1, v2) ==
    LET num == v1[1] * v2[1] + v1[2] * v2[2]
        n1 == v1[1] * v1[1] + v1[2] * v1[2]
        n2 == v2[1] * v2[1] + v2[2] * v2[2]
        sq == num * num
    IN  IF 4 * sq < n1 * n2 \/ n1 * n2 = 0 THEN 1571
        ELSE IF 4 * sq < 3 * n1 * n2 THEN (IF num > 0 THEN 785 ELSE 2356)
        ELSE (IF num > 0 THEN 0 ELSE 3141)

\* per_point_curvature keeping the interior angles only.
PerPointCurvatureInterior(coords) ==
    [i \in 1..(IF Len(coords) < 3 THEN 0 ELSE Len(coords) - 2) |->
        AngleBetween(<<coords[i][1] - coords[i + 1][1], coords[i][2] - coords[i + 1][2]>>,
                     <<coords[i + 2][1] - coords[i + 1][1],
                       coords[i + 2][2] - coords[i + 1][2]>>)]

\* per_point_curvature (services/geometry.py:18-30), milliradians.
per_point_curvature(coords) ==
    IF Len(coords) < 3 THEN Rep(Len(coords), 0)
    ELSE [i \in 1..Len(coords) |->
            IF i = 1 \/ i = Len(coords) THEN 0
            ELSE LET a == coords[i - 1]
                     b == coords[i]
                     c == coords[i + 1]
                 IN  AngleBetween(<<a[1] - b[1], a[2] - b[2]>>, <<c[1] - b[1], c[2] - b[2]>>)]

\* The weather dict of manual mode (routers/risk.py:57-65); None is NoVal.
ManualWeather(wi) ==
    [temperature |-> wi.temperature, humidity |-> wi.humidity,
     precipitation |-> wi.precipitation, wind_speed |-> wi.wind_speed,
     is_rain |-> (Get(wi.precipitation, 0) > 100) \/ (wi.is_wet = 1)]

\* What snapshot_for_polyline returns when the weather service answers
\* (services/weather_adapter.py:28-34).
LiveWeather(live) ==
    [temperature |-> 20, humidity |-> 60,
     precipitation |-> IF live = "rain" THEN 2500 ELSE 0, wind_speed |-> 0,
     is_rain |-> live = "rain"]

VehicleFactor(vehicle) ==
    CASE vehicle = "MOTORCYCLE" -> 1200
      [] vehicle = "THREE_WHEELER" -> 1150
      [] vehicle = "CAR" -> 1000
      [] vehicle = "BUS" -> 1100
      [] vehicle = "LORRY" -> 1150
      [] OTHER -> 1000

\* build_features (services/feature_engineering.py:5-40): float() of a None
\* value raises; the result is the features of the second gateway call.
build_features(coords, weather, vehicle) ==
    IF NoVal \in {weather.temperature, weather.wind_speed, weather.humidity,
                  weather.precipitation}
    THEN [raised |-> TRUE, feats |-> <<>>]
    ELSE [raised |-> FALSE,
          feats |-> [vehicle |-> vehicle, hour |-> NoVal, curvKind |-> "list",
                     curvS |-> 0, curvL |-> per_point_curvature(coords),
                     wet |-> IF weather.is_rain THEN 1000 ELSE 0,
                     vf |-> VehicleFactor(vehicle),
                     isRain |-> weather.is_rain, precip |-> weather.precipitation]]

\* The weather dict with its curvature list, as predict_with_cause reads it
\* (routers/risk.py:73-74, 85-91).
WeatherFeatures(weather, curvatures) ==
    [vehicle |-> "CAR", hour |-> NoVal, curvKind |-> "list", curvS |-> 0,
     curvL |-> curvatures, wet |-> NoVal, vf |-> NoVal,
     isRain |-> weather.is_rain, precip |-> weather.precipitation]

Rejected(status, h, thr) ==
    [status |-> status, overall |-> 0, overall_0_100 |-> 0, coords |-> <<>>,
     segments |-> <<>>, h |-> h, inv |-> NoInv, thr |-> thr]

\* The response (routers/risk.py:92, 113-172): pc is what predict_with_cause
\* returned, thr2 the thresholds as load_vehicle_thresholds returned them.
ScoreResponse(req, coords, feats, pc, h, inv, thr2) ==
    LET seg == pc.norm
        overall == SumSeq(seg) \div Len(seg)
        threshold == ThresholdFor(thr2.tab, req.vehicleType)
    IN  [status |-> 200, overall |-> overall,
         overall_0_100 |-> overall \div 1000000,
         coords |-> coords,
         segments |-> [i \in 1..Len(coords) |->
            [risk_score |-> seg[i],
             risk_0_100 |-> seg[i] \div 1000000,
             cause |-> IF i <= Len(pc.causes) THEN pc.causes[i] ELSE "Unknown",
             incident_rate |-> IF i <= Len(pc.rates) THEN pc.rates[i] ELSE 0,
             curvature |-> feats.curvL[i],
             is_high_risk |-> seg[i] > threshold * 100000]],
         h |-> h, inv |-> inv, thr |-> thr2]

\* The handler once the second predict_segment_scores call, made for the
\* confidence metrics, has returned conf (routers/risk.py:96-120).
ScoreAfterConfidence(req, coords, io, feats, pc, conf) ==
    IF conf.raised THEN Rejected(500, conf.h, conf.thr)
    ELSE ScoreResponse(req, coords, feats, pc, conf.h,
                       [r \in Roles |-> pc.inv[r] + conf.inv[r]],
                       load_vehicle_thresholds(conf.thr, io.csv))

\* The handler once predict_with_cause has returned pc (routers/risk.py:85-96).
ScoreAfterPrediction(req, coords, io, feats, pc) ==
    IF pc.raised THEN Rejected(500, pc.h, pc.thr)
    ELSE ScoreAfterConfidence(req, coords, io, feats, pc,
                              predict_segment_scores(feats, Len(coords), pc.h, io, pc.thr))

\* The handler once build_features has returned bf (routers/risk.py:77-91).
ScoreAfterFeatures(req, coords, weather, h, io, thr, bf) ==
    IF bf.raised THEN Rejected(500, h, thr)
    ELSE ScoreAfterPrediction(req, coords, io, bf.feats,
            predict_with_cause(Len(coords),
                               WeatherFeatures(weather, per_point_curvature(coords)),
                               req.vehicleType, req.hour, h, io, thr))

\* The handler from the weather dict on (routers/risk.py:72-172).
ScoreBody(req, coords, weather, h, io, thr) ==
    ScoreAfterFeatures(req, coords, weather, h, io, thr,
                       build_features(coords, weather, req.vehicleType))

\* The handler on the filtered coordinates (routers/risk.py:44-70).  io.live
\* is the weather service's answer.
ScoreFiltered(req, ginigathena_coords, h, io, thr) ==
    IF Len(ginigathena_coords) < 2 THEN Rejected(400, h, thr)
    ELSE IF req.weather.given
    THEN ScoreBody(req, ginigathena_coords, ManualWeather(req.weather), h, io, thr)
    ELSE IF io.live = "fail" THEN Rejected(500, h, thr)
    ELSE ScoreBody(req, ginigathena_coords, LiveWeather(io.live), h, io, thr)

\* score (routers/risk.py:24-179).
score(req, h, io, thr) ==
    IF Len(req.coordinates) < 2 THEN Rejected(400, h, thr)
    ELSE ScoreFiltered(req, filter_coordinates_in_ginigathena(req.coordinates), h, io, thr)

ScoreCommit(req, io, g) ==
    /\ TotalLoads + g.inv["risk"] + g.inv["rate"] + g.inv["cause"] <= MaxLoads
    /\ handle' = g.h
    /\ loads' = [r \in Roles |-> loads[r] + g.inv[r]]
    /\ thresholds' = g.thr
    /\ res' = [op |-> "score", req |-> req, live |-> io.live, out |-> io.out,
               status |-> g.status, overall |-> g.overall,
               overall_0_100 |-> g.overall_0_100, coords |-> g.coords,
               segments |-> g.segments]

(***************************************************************************)
(* SpecScore: one /score request, drawn in the initial state and served    *)
(* again and again under every combination of files found, model answers   *)
(* and weather-service answers.                                            *)
(***************************************************************************)
ExampleRoute == << <<693, 8045>>, <<694, 8046>> >>

Requests ==
    { [vehicleType |-> v, coordinates |-> c, hour |-> hour, weather |-> w] :
        v \in {"MOTORCYCLE", "CAR"},
        c \in { ExampleRoute,
                << <<700, 8040>> >>,
                << <<700, 8040>>, <<710, 8050>> >>,
                << <<700, 8040>>, <<710, 8040>>, <<710, 8050>> >>,
                << <<710, 8050>>, <<760, 8050>>, <<720, 8060>> >>,
                << <<693, 8045>>, <<710, 8050>> >> },
        hour \in {NoVal, 8, 24},
        w \in { [given |-> FALSE, temperature |-> NoVal, humidity |-> NoVal,
                 precipitation |-> NoVal, wind_speed |-> NoVal, is_wet |-> NoVal],
                [given |-> TRUE, temperature |-> 25, humidity |-> 60,
                 precipitation |-> 0, wind_speed |-> 5, is_wet |-> 0],
                [given |-> TRUE, temperature |-> 25, humidity |-> 60,
                 precipitation |-> 2500, wind_speed |-> 5, is_wet |-> NoVal],
                [given |-> TRUE, temperature |-> NoVal, humidity |-> NoVal,
                 precipitation |-> NoVal, wind_speed |-> NoVal, is_wet |-> 1] } }

ScoreOuts(r, n) ==
    CASE r = "risk" -> {Threw, Returned([i \in 1..n |-> (IF i % 3 = 1 THEN 1000 ELSE IF i % 3 = 2 THEN 0 ELSE 500)])}
      [] r = "rate" -> {Threw, Returned([i \in 1..n |-> (IF i % 3 = 1 THEN 100 ELSE IF i % 3 = 2 THEN -100 ELSE 10)])}
      [] r = "cause" -> {Threw, Returned([i \in 1..n |-> CauseAt(i)])}

\* The files and the answer of one role: a role without a loadable file
\* gives no answer.
RoleIOs(r, n) ==
    IF handle[r] = LOADED
    THEN { <<NoFiles, o>> : o \in ScoreOuts(r, n) }
    ELSE { <<NoFiles, Threw>> } \cup { << <<"none", "ok">>, o >> : o \in ScoreOuts(r, n) }

ScoreIOs(req) ==
    LET n == Len(filter_coordinates_in_ginigathena(req.coordinates))
    IN  { [view |-> [risk |-> a[1], rate |-> b[1], cause |-> c[1]],
           out |-> [risk |-> a[2], rate |-> b[2], cause |-> c[2]],
           csv |-> NoCsv, live |-> live] :
            a \in RoleIOs("risk", n), b \in RoleIOs("rate", n), c \in RoleIOs("cause", n),
            live \in IF req.weather.given THEN {"dry"} ELSE {"fail", "dry", "rain"} }

InitScore ==
    /\ handle \in { [r \in Roles |-> IF r = "risk" THEN x ELSE UNLOADED] :
                        x \in {UNLOADED, FALLBACK} }
    /\ loads = [r \in Roles |-> 0]
    /\ thresholds = NoThresholds
    /\ \E req \in Requests : res = [op |-> "request", req |-> req]

NextScore ==
    \E io \in ScoreIOs(res.req) :
        ScoreCommit(res.req, io, score(res.req, handle, io, thresholds))

SpecScore == InitScore /\ [][NextScore]_vars

(***************************************************************************)
(* SpecThresholds: the threshold cache.  load_vehicle_thresholds is called *)
(* directly with any file at the path it is given, and the loaded branch   *)
(* of predict_segment_scores normalises raw predictions against the table. *)
(***************************************************************************)
Row(vehicle, threshold) == [vehicle |-> vehicle, threshold |-> threshold]

CsvFiles ==
    { NoCsv,
      [st |-> "corrupt", rows |-> <<>>],
      [st |-> "ok", rows |-> <<>>],
      [st |-> "ok", rows |-> << Row("Motor Cycle", 300) >>],
      [st |-> "ok", rows |-> << Row("motor cycle", 300) >>],
      [st |-> "ok", rows |-> << Row("Car", 1000) >>],
      [st |-> "ok", rows |-> << Row("Car", 0), Row("Bus", 700) >>],
      [st |-> "ok", rows |-> << Row("__GLOBAL__", 400), Row("car", 600) >>],
      [st |-> "ok", rows |-> << Row("Car", 300), Row("Car", 600) >>],
      [st |-> "ok", rows |-> << Row("__GLOBAL__", 500), Row("Motor Cycle", 450),
                                Row("Three Wheeler", 480), Row("Car", 500),
                                Row("Bus", 550), Row("Lorry", 520) >>] }

VehicleTypes == {"MOTORCYCLE", "THREE_WHEELER", "CAR", "BUS", "LORRY", "VAN"}

LoadThresholdsCommit(csv, read, thr2) ==
    /\ thresholds' = thr2
    /\ res' = [op |-> "load_vehicle_thresholds", pre |-> thresholds, csv |-> csv,
               read |-> read, returned |-> thr2.tab]
    /\ UNCHANGED <<handle, loads>>

ThresholdPredictCall(vehicle, p, csv) ==
    PredictSegmentScoresCall(
        [DryWeather(2) EXCEPT !.vehicle = vehicle], 2,
        [view |-> [risk |-> <<"none", "ok">>, rate |-> NoFiles, cause |-> NoFiles],
         out |-> [risk |-> Returned(<<p, p>>), rate |-> Threw, cause |-> Threw],
         csv |-> csv])

NextThresholds ==
    \/ \E csv \in CsvFiles :
            LoadThresholdsCommit(csv, ~thresholds.set /\ csv.st # "missing",
                                 load_vehicle_thresholds(thresholds, csv))
    \/ \E vehicle \in VehicleTypes,
          p \in {-100, 0, 200, 300, 400, 450, 480, 500, 520, 550, 600, 700, 900, 1000, 1100},
          csv \in (IF thresholds.set THEN {NoCsv} ELSE CsvFiles) :
            ThresholdPredictCall(vehicle, p, csv)

SpecThresholds == Init /\ [][NextThresholds]_vars

(***************************************************************************)
(* SpecIntegrated: calculate_integrated_risk_score as a function of its    *)
(* arguments, drawn in the initial state.                                  *)
(***************************************************************************)
InitIntegrated ==
    /\ handle = [r \in Roles |-> UNLOADED]
    /\ loads = [r \in Roles |-> 0]
    /\ thresholds = NoThresholds
    /\ \E c \in {-200, 0, 100, 200, 300, 400, 500, 600, 700, 800, 900, 1000, 1300, 3000}, r \in {-100, 0, 10, 25, 50, 100},
          v \in VehicleTypes \cup {"TRUCK"}, wet \in BOOLEAN :
            res = [op |-> "arguments", cause_probability |-> c, segment_rate |-> r,
                   vehicle_type |-> v, is_wet |-> wet]

IntegratedCall ==
    /\ res.op = "arguments"
    /\ res' = [res EXCEPT !.op = "calculate_integrated_risk_score"]
                 @@ [score |-> calculate_integrated_risk_score(
                                   res.cause_probability, res.segment_rate,
                                   res.vehicle_type, res.is_wet)]
    /\ UNCHANGED <<handle, loads, thresholds>>

SpecIntegrated == InitIntegrated /\ [][(IntegratedCall)]_vars

(***************************************************************************)
(* Claims about the loaders (Spec).                                        *)
(***************************************************************************)

\* C1: once a role's handle is LOADED or FALLBACK, no later load or predict
\* call changes it.
C1_HandleIsFinal ==
    [][\A r \in Roles : handle[r] \in {LOADED, FALLBACK} => handle'[r] = handle[r]]_vars

\* C2: joblib.load is invoked at most once per role in a process, whether the
\* load succeeds or fails.
C2_DeserializedAtMostOnce == \A r \in Roles : loads[r] <= 1

\* The candidate one loader call settles on, read off its three inputs.
C5_Picked(exp, env, def) ==
    IF exp \in {"corrupt", "ok"} THEN exp
    ELSE IF exp = "none" /\ env \in {"corrupt", "ok"} THEN env
    ELSE def

\* C5, the candidate picked: a load that finds the role not LOADED picks one candidate,
\* the path argument if given and existing, else (no argument given) the
\* environment path if it exists, else the default path; the role becomes
\* LOADED when that one candidate exists and deserializes and FALLBACK
\* otherwise, with no further candidate tried.
C5_PickedCandidateDecides ==
    (res.op = "load" /\ res.pre # LOADED) =>
        /\ ~res.raised
        /\ handle[res.role] =
              (IF C5_Picked(res.exp, res.env, res.def) = "ok" THEN LOADED ELSE FALLBACK)
        /\ res.invoked =
              (IF C5_Picked(res.exp, res.env, res.def) \in {"corrupt", "ok"} THEN 1 ELSE 0)

\* C5 witness: a corrupt file at the path argument and a loadable one at the
\* default path leave the role FALLBACK.
C5_Witness ==
    /\ res.op = "load" /\ res.pre = UNLOADED
    /\ res.exp = "corrupt" /\ res.def = "ok"
    /\ handle[res.role] = FALLBACK

\* C5 as claimed: the role becomes LOADED from the first candidate that exists
\* and deserializes, and FALLBACK only when no candidate does.
C5_FirstLoadableWins ==
    (res.op = "load" /\ res.pre # LOADED) =>
        (handle[res.role] = LOADED <=> "ok" \in {res.exp, res.env, res.def})

(***************************************************************************)
(* Claims about the gateway calls (SpecGateway).                           *)
(***************************************************************************)

\* C3: predict_with_cause returns normally, with a score, a cause and an
\* incident rate per point, whatever the loads find and the models answer.
C3_PredictWithCauseReturns ==
    res.op = "predict_with_cause" =>
        /\ ~res.raised
        /\ Len(res.norm) = res.n
        /\ Len(res.causes) = res.n
        /\ Len(res.rates) = res.n

\* C3 witness: a call in which the risk model raised in predict and the cause
\* classifier's file failed to deserialize.
C3_Witness ==
    /\ res.op = "predict_with_cause" /\ ~res.raised
    /\ handle["risk"] = LOADED /\ ~res.out["risk"].ok
    /\ handle["cause"] = FALLBACK /\ loads["cause"] >= 1
    /\ Len(res.causes) = res.n

\* What predict_segment_scores returns for the answered predictions val.
C4_ModelDerived(f, n, val, tab) ==
    [i \in 1..Len(val) |->
        NormalizedRisk(val[i], ThresholdFor(tab, f.vehicle), CurvatureAt(f, n, i))]

\* C4: with the risk model LOADED, a predict_segment_scores call whose
\* model.predict raises returns 0.3 for every point and leaves the handle
\* LOADED; a call whose model.predict answers returns the values derived from
\* that answer, also right after a call that failed.
C4_PredictFailureIsPerCall ==
    [][res'.op = "predict_segment_scores" =>
          /\ handle["risk"] = LOADED => handle'["risk"] = LOADED
          /\ (handle'["risk"] = LOADED /\ ~res'.out["risk"].ok) =>
                res'.norm = Rep(res'.n, PredictFailureRisk)
          /\ (handle'["risk"] = LOADED /\ res'.out["risk"].ok) =>
                /\ res'.raw = res'.out["risk"].val
                /\ res'.norm = C4_ModelDerived(res'.f, res'.n, res'.out["risk"].val,
                                               thresholds'.tab)
      ]_vars

\* C4 witness: the risk model is LOADED, its predict raised and the call
\* returned 0.3 per point.
C4_Witness ==
    /\ res.op = "predict_segment_scores"
    /\ handle["risk"] = LOADED /\ ~res.out["risk"].ok
    /\ res.n = 2 /\ res.norm = <<PredictFailureRisk, PredictFailureRisk>>

\* C6: whenever the incident-rate model is LOADED and its prediction succeeds,
\* the rates a scoring call returns are that model's predictions, whatever the
\* state of the risk regressor.
C6_RateIndependentOfRisk ==
    (res.op = "predict_with_cause" /\ handle["rate"] = LOADED /\ res.out["rate"].ok) =>
        res.rates = res.out["rate"].val

(***************************************************************************)
(* Claims about the fallback risk (SpecFallback).                          *)
(***************************************************************************)

\* C9: with the risk role in FALLBACK, predict_segment_scores returns without
\* raising and every risk value lies in [0,1], rush hours included.
C9_FallbackRiskInUnitInterval ==
    (res.op = "predict_segment_scores" /\ handle["risk"] = FALLBACK) =>
        /\ ~res.raised
        /\ Len(res.norm) >= 1
        /\ \A i \in 1..Len(res.norm) : 0 <= res.norm[i] /\ res.norm[i] <= FallbackOne

\* C9 witness: a rush-hour call whose weighted sum is below 1 and whose
\* product with 1.2 is above 1; the returned value is 1.
C9_Witness ==
    /\ res.op = "predict_segment_scores" /\ handle["risk"] = FALLBACK
    /\ res.f.hour \in RushHours /\ res.f.curvKind = "scalar"
    /\ 150 * Get(res.f.vf, 1000) + 700 * res.f.curvS + 150 * Get(res.f.wet, 0) < 1000000
    /\ 12 * (150 * Get(res.f.vf, 1000) + 700 * res.f.curvS + 150 * Get(res.f.wet, 0))
            > FallbackOne
    /\ res.norm[1] = FallbackOne

\* C10: of two fallback calls whose features differ only in the hour, one
\* hour a rush hour and the other not, the rush-hour call's risk is at least
\* the other's at every point.
C10_RushHourNotBelow ==
    [][(/\ res.op = "predict_segment_scores" /\ res'.op = "predict_segment_scores"
        /\ handle["risk"] = FALLBACK /\ handle'["risk"] = FALLBACK
        /\ res.n = res'.n
        /\ [res.f EXCEPT !.hour = NoVal] = [res'.f EXCEPT !.hour = NoVal]
        /\ res.f.hour \in RushHours /\ res'.f.hour \notin RushHours) =>
            /\ Len(res.norm) = Len(res'.norm)
            /\ \A i \in 1..Len(res.norm) : res.norm[i] >= res'.norm[i]
      ]_vars

\* C10 witness: a rush-hour call whose risk is strictly above what the same
\* features give at noon.
C10_Witness ==
    /\ res.op = "predict_segment_scores" /\ handle["risk"] = FALLBACK
    /\ res.f.hour \in RushHours
    /\ res.norm[1] > DummyScores([res.f EXCEPT !.hour = 12], res.n)[1]

(***************************************************************************)
(* Claims about /score (SpecScore).                                        *)
(***************************************************************************)

\* C7: every successful /score response has its overall within [0,1] of the
\* 0-1 scale (so within [0,100]), its overall_0_100 within 0..100, and every
\* segment's risk_score within [0,1] and risk_0_100 within 0..100, whatever
\* the roles' states and the models' answers.
C7_ScoresInRange ==
    (res.op = "score" /\ res.status = 200) =>
        /\ 0 <= res.overall /\ res.overall <= HundredPoints
        /\ res.overall_0_100 \in 0..100
        /\ Len(res.segments) = Len(res.coords) /\ Len(res.segments) >= 2
        /\ \A i \in 1..Len(res.segments) :
              /\ 0 <= res.segments[i].risk_score
              /\ res.segments[i].risk_score <= HundredPoints
              /\ res.segments[i].risk_0_100 \in 0..100

\* C7 witness: a response with a segment whose unclipped integrated score is
\* above 100 and a segment whose unclipped score is below 0.
C7_Witness ==
    /\ res.op = "score" /\ res.status = 200
    /\ res.out["risk"].ok /\ res.out["rate"].ok
    /\ \E i \in 1..Len(res.segments) :
          /\ IntegratedUnclipped(res.out["risk"].val[i], res.segments[i].incident_rate,
                                 res.req.vehicleType, TRUE) > HundredPoints
          /\ res.segments[i].risk_0_100 = 100
    /\ \E i \in 1..Len(res.segments) :
          /\ res.segments[i].incident_rate < 0
          /\ res.segments[i].risk_0_100 = 0

\* C8: with the risk role FALLBACK, the example route for a CAR
\* without a weather override is served, and its overall is the mean of the
\* fallback risk 0.15*1.0 + 0.7*curvature over the route's points.
C8_FallbackOverallIsFallbackRisk ==
    (/\ res.op = "score" /\ handle["risk"] = FALLBACK
     /\ res.req.coordinates = ExampleRoute /\ res.req.vehicleType = "CAR"
     /\ ~res.req.weather.given) =>
        /\ res.status = 200
        /\ res.overall =
              LET curv == per_point_curvature(ExampleRoute)
              IN  SumSeq([i \in 1..Len(curv) |->
                            10 * FallbackRisk(1000, curv[i], 0, NoVal)]) \div Len(curv)

(***************************************************************************)
(* Claims about the thresholds (SpecThresholds).                           *)
(***************************************************************************)

\* C11: with the risk model LOADED, a raw prediction equal to the vehicle's
\* threshold is normalized to exactly 0.5 before curvature amplification
\* (read at the points of curvature 0, where the amplification is 1).
C11_ThresholdMapsToHalf ==
    (res.op = "predict_segment_scores" /\ handle["risk"] = LOADED /\ res.out["risk"].ok) =>
        \A i \in 1..res.n :
            (/\ res.raw[i] = ThresholdFor(thresholds.tab, res.f.vehicle)
             /\ CurvatureAt(res.f, res.n, i) = 0) =>
                res.norm[i] = 500

\* The vehicle class a file's vehicle name names when case is ignored.
C19_ClassOf(vehicle) ==
    CASE vehicle \in {"Motor Cycle", "motor cycle"} -> "MOTORCYCLE"
      [] vehicle \in {"Three Wheeler"} -> "THREE_WHEELER"
      [] vehicle \in {"Car", "car"} -> "CAR"
      [] vehicle \in {"Bus"} -> "BUS"
      [] vehicle \in {"Lorry"} -> "LORRY"
      [] vehicle \in {"Van"} -> "VAN"
      [] OTHER -> vehicle

\* C19: after the table is read from a file, the threshold of every vehicle
\* class and of __GLOBAL__ is the value of the last row naming it, case
\* ignored, and for a name without a row its value by the default table.
C19_RowsOverDefaults ==
    (res.op = "load_vehicle_thresholds" /\ res.read /\ res.csv.st = "ok") =>
        \A v \in VehicleTypes \cup {"__GLOBAL__"} :
            LET named == {i \in 1..Len(res.csv.rows) : C19_ClassOf(res.csv.rows[i].vehicle) = v}
            IN  ThresholdFor(thresholds.tab, v) =
                    IF named = {}
                    THEN ThresholdFor(default_thresholds, v)
                    ELSE res.csv.rows[CHOOSE i \in named : \A j \in named : j <= i].threshold

\* C20: once the threshold table is set no call changes it, and a later
\* load_vehicle_thresholds call returns it without opening a file, whatever
\* file is at the path it is given.
C20_ThresholdsSetOnce ==
    [][thresholds.set =>
          /\ thresholds' = thresholds
          /\ res'.op = "load_vehicle_thresholds" =>
                (~res'.read /\ res'.returned = thresholds.tab)
      ]_vars

\* C20 witness: the first access found no readable file and cached the
\* defaults; a later call given a readable file with another table returned
\* the defaults without reading.
C20_Witness ==
    /\ res.op = "load_vehicle_thresholds" /\ res.pre.set
    /\ res.pre.tab = default_thresholds
    /\ res.csv.st = "ok" /\ TableOfRows(res.csv.rows) # default_thresholds
    /\ ~res.read /\ res.returned = default_thresholds /\ thresholds = res.pre

(***************************************************************************)
(* Claims about the integrated score (SpecIntegrated).                     *)
(***************************************************************************)

\* The vehicle multipliers, in hundredths.
C12_vm(v) ==
    CASE v = "MOTORCYCLE" -> 120 [] v = "THREE_WHEELER" -> 110 [] v = "CAR" -> 100
      [] v = "BUS" -> 85 [] v = "LORRY" -> 90 [] v = "VAN" -> 100 [] OTHER -> 100

\* C12: calculate_integrated_risk_score(c, r, v, wet) is
\* clip(100*(0.6*sigmoid(5*(c-0.5)) + 0.4*min(1, r/0.05))*vm(v)*wm(wet), 0, 100),
\* and (0.5, 0.0, CAR, dry) gives 30.0.
C12_IntegratedFormula ==
    res.op = "calculate_integrated_risk_score" =>
        /\ res.score =
              LET cause == sigmoid(5 * (res.cause_probability - 500))
                  rate == IF 20 * res.segment_rate < 1000 THEN 20 * res.segment_rate ELSE 1000
                  product == (6 * cause + 4 * rate) * C12_vm(res.vehicle_type)
                                * (IF res.is_wet THEN 125 ELSE 100)
              IN  IF product < 0 THEN 0
                  ELSE IF product > 100000000 THEN 100000000 ELSE product
        /\ (/\ res.cause_probability = 500 /\ res.segment_rate = 0
            /\ res.vehicle_type = "CAR" /\ ~res.is_wet) => res.score = 30000000

\* C12 witness: the example (0.5, 0.0, CAR, dry) evaluated to 30.0.
C12_Witness ==
    /\ res.op = "calculate_integrated_risk_score"
    /\ res.cause_probability = 500 /\ res.segment_rate = 0
    /\ res.vehicle_type = "CAR" /\ ~res.is_wet
    /\ res.score = 30000000

(***************************************************************************)
(* The two stages of one scoring call.                                     *)
(***************************************************************************)

\* Position of the first call of role r in a call list, 0 when there is none.
C14_First(calls, r) ==
    IF \E i \in 1..Len(calls) : calls[i] = r
    THEN CHOOSE i \in 1..Len(calls) : calls[i] = r /\ \A j \in 1..(i - 1) : calls[j] # r
    ELSE 0

\* C14: in a scoring call that invokes the cause classifier, a loaded risk
\* regressor has predicted before it, and the risk column the classifier is
\* given is the raw list the risk stage returned in that call, one per point.
C14_RiskFeedsCause ==
    (/\ res.op = "predict_with_cause" /\ ~res.raised
     /\ C14_First(res.calls, "cause") > 0) =>
        /\ res.spi_in = res.raw
        /\ Len(res.spi_in) = res.n
        /\ handle["risk"] = LOADED =>
              /\ C14_First(res.calls, "risk") > 0
              /\ C14_First(res.calls, "risk") < C14_First(res.calls, "cause")
        /\ \A i \in 1..Len(res.calls) :
              i > C14_First(res.calls, "cause") => res.calls[i] # "risk"

\* C14 witness: both models predicted in one call over two points, and the
\* raw risk list differs from the normalized one.
C14_Witness ==
    /\ res.op = "predict_with_cause" /\ ~res.raised /\ res.n = 2
    /\ C14_First(res.calls, "risk") > 0
    /\ C14_First(res.calls, "cause") > C14_First(res.calls, "risk")
    /\ res.spi_in = res.raw
    /\ res.raw # res.norm
    /\ res.raw[1] # res.raw[2]

(***************************************************************************)
(* Time features of a feature frame (model.py:371-385).  A clock reading   *)
(* and a parsed timestamp are an hour 0..23 and a weekday 0..6 (0 is        *)
(* Monday); timestamp.st is "none" (None or empty), "bad" (pd.to_datetime   *)
(* raises) or "ok".  now is what datetime.now() reads during the call.      *)
(***************************************************************************)
ResolvedTime(timestamp, now) ==
    IF timestamp.st = "ok" THEN [hour |-> timestamp.hour, dow |-> timestamp.dow]
    ELSE [hour |-> now.hour, dow |-> now.dow]

\* hour, dow, is_weekend of _base_feature_df once dt is resolved
\* (model.py:381-383).
TimeFeatures(dt, hour_override) ==
    [hour |-> IF hour_override # NoVal THEN hour_override ELSE dt.hour,
     dow |-> dt.dow,
     is_weekend |-> IF dt.dow >= 5 THEN 1 ELSE 0]

base_feature_df(timestamp, hour_override, now) ==
    TimeFeatures(ResolvedTime(timestamp, now), hour_override)

\* prepare_features_for_xgboost (model.py:301-321): the frame the risk
\* regressor and the rate model predict on.
prepare_features_for_xgboost(timestamp, hour_override, now) ==
    base_feature_df(timestamp, hour_override, now)

\* prepare_features_for_classifier (model.py:324-353): _base_feature_df is
\* called without an hour_override (model.py:334), which is then None.
prepare_features_for_classifier(timestamp, now) ==
    base_feature_df(timestamp, NoVal, now)

(***************************************************************************)
(* The two frames of a scoring call whose features hold timestamp and      *)
(* hour: predict_segment_scores builds the first (model.py:507-513),       *)
(* predict_cause_scores the second (model.py:460-466).                     *)
(***************************************************************************)
NoTimestamp == [st |-> "none", hour |-> 0, dow |-> 0]
Timestamps ==
    {NoTimestamp, [st |-> "bad", hour |-> 0, dow |-> 0]} \cup [st : {"ok"}, hour : {3, 22}, dow : {1, 6}]
Clocks == [hour : {5, 14}, dow : {2, 5}]
HourOverrides == {NoVal, 0, 8, 23}

FrameCommit(op, timestamp, hour, now, frame) ==
    /\ res' = [op |-> op, timestamp |-> timestamp, hour |-> hour, now |-> now,
               frame |-> frame]
    /\ UNCHANGED <<handle, loads, thresholds>>

\* Both frames of one predict_with_cause call with the two models loaded
\* (model.py:637-641).
WithCauseFramesCall(timestamp, hour, now) ==
    /\ res' = [op |-> "predict_with_cause", timestamp |-> timestamp, hour |-> hour,
               now |-> now,
               risk_frame |-> prepare_features_for_xgboost(timestamp, hour, now),
               cause_frame |-> prepare_features_for_classifier(timestamp, now)]
    /\ UNCHANGED <<handle, loads, thresholds>>

NextTime ==
    \/ \E timestamp \in Timestamps, hour \in HourOverrides, now \in Clocks :
          (FrameCommit("prepare_features_for_xgboost", timestamp, hour, now, prepare_features_for_xgboost(timestamp, hour, now)))
    \/ \E timestamp \in Timestamps, hour \in HourOverrides, now \in Clocks :
          (FrameCommit("prepare_features_for_classifier", timestamp, hour, now, prepare_features_for_classifier(timestamp, now)))
    \/ \E timestamp \in Timestamps, hour \in HourOverrides, now \in Clocks :
          WithCauseFramesCall(timestamp, hour, now)

SpecTime == Init /\ [][NextTime]_vars

\* The hour the precedence gives: the override, else the timestamp's hour,
\* else the clock's.
C18_Hour(timestamp, hour, now) ==
    IF hour # NoVal THEN hour
    ELSE IF timestamp.st = "ok" THEN timestamp.hour ELSE now.hour

\* The weekday of the timestamp, else of the clock.
C18_Dow(timestamp, now) == IF timestamp.st = "ok" THEN timestamp.dow ELSE now.dow

\* C18: every frame of a scoring call has the override as its hour when one
\* is given, else the timestamp's hour, else the clock's; its dow and
\* is_weekend are those of the timestamp, else of the clock, whatever the
\* override.
C18_TimePrecedence ==
    res.op \in {"prepare_features_for_xgboost", "prepare_features_for_classifier"} =>
        /\ res.frame.hour = C18_Hour(res.timestamp, res.hour, res.now)
        /\ res.frame.dow = C18_Dow(res.timestamp, res.now)
        /\ res.frame.is_weekend = (IF C18_Dow(res.timestamp, res.now) >= 5 THEN 1 ELSE 0)

(***************************************************************************)
(* generate_risk_segments (risk_segments.py:111-247).  A bounding box is    *)
(* <<min_lon, min_lat, max_lon, max_lat>> in units of 1e-4 degree; a cell   *)
(* centre is <<lat, lon>> in units of 0.5e-4 degree, which holds the mean   *)
(* of two 1e-4 values exactly.  Every cell is one predict_with_cause call   *)
(* on the single point at its centre, with timestamp None.                  *)
(***************************************************************************)
\* min(max(3, int(range / 0.004)), 12) (risk_segments.py:141-146).
NumCells(range) == Min2(IF range \div 40 > 3 THEN range \div 40 ELSE 3, 12)

\* round(lo + i * (range / num), 4) for lo on the 1e-4 grid.
CellEdge(lo, range, num, i) == lo + (2 * i * range + num) \div (2 * num)

\* The centre of cell (i, j) (risk_segments.py:173-181).
CellCenter(bbox, i, j) ==
    <<CellEdge(bbox[2], bbox[4] - bbox[2], NumCells(bbox[4] - bbox[2]), i)
        + CellEdge(bbox[2], bbox[4] - bbox[2], NumCells(bbox[4] - bbox[2]), i + 1),
      CellEdge(bbox[1], bbox[3] - bbox[1], NumCells(bbox[3] - bbox[1]), j)
        + CellEdge(bbox[1], bbox[3] - bbox[1], NumCells(bbox[3] - bbox[1]), j + 1)>>

\* The geofence letting every centre through.
CellAnywhere(center) == TRUE

\* is_within_ginigathena on a centre (risk_segments.py:184).
CellWithinGinigathena(center) ==
    /\ 200 * GINIGATHENA_BOUNDS.min_lat <= center[1]
    /\ center[1] <= 200 * GINIGATHENA_BOUNDS.max_lat
    /\ 200 * GINIGATHENA_BOUNDS.min_lon <= center[2]
    /\ center[2] <= 200 * GINIGATHENA_BOUNDS.max_lon

\* The centres the two loops visit and keep, in loop order
\* (risk_segments.py:171-185).
GridCenters(bbox) ==
    SelectSeq([k \in 1..(NumCells(bbox[4] - bbox[2]) * NumCells(bbox[3] - bbox[1])) |->
                 CellCenter(bbox, (k - 1) \div NumCells(bbox[3] - bbox[1]),
                                  (k - 1) % NumCells(bbox[3] - bbox[1]))],
              CellWithinGinigathena)

\* hash_coords (risk_segments.py:16-18): int((lat*1000 + lon*1000) * 12345),
\* the product taken in two parts to stay within 32 bits.
hash_coords(lat, lon) ==
    ((lat + lon) \div 20) * 12345 + (((lat + lon) % 20) * 12345) \div 20

\* seeded_random (risk_segments.py:11-14), milli: a value in [0, 1) that
\* depends on the seed alone.  The fractional part of sin(seed) * 10000 is
\* not computable on integers; a residue stands for it.
seeded_random(seed) == ((seed % 997) * 1000) \div 997

\* cell_curvature (risk_segments.py:194-195), milli.
CellCurvature(center) == seeded_random(hash_coords(center[1], center[2])) \div 4

\* weather_defaults after the weather_input items that are not None are
\* copied in (risk_segments.py:152-165).  A weather_input is None (given
\* FALSE) or a dict of the five keys of the handler (risk.py:339-345), NoVal
\* for a None value.  is_rain is only set when a dict is given.
GridWeather(weather_input) ==
    IF ~weather_input.given
    THEN [temperature |-> 30000, humidity |-> 75000, precipitation |-> 0,
          wind_speed |-> 10000, is_wet |-> NoVal, is_rain |-> NoVal]
    ELSE [temperature |-> Get(weather_input.temperature, 30000),
          humidity |-> Get(weather_input.humidity, 75000),
          precipitation |-> Get(weather_input.precipitation, 0),
          wind_speed |-> Get(weather_input.wind_speed, 10000),
          is_wet |-> weather_input.is_wet,
          is_rain |-> IF Get(weather_input.precipitation, 0) > 100
                         \/ weather_input.is_wet = 1 THEN 1 ELSE 0]

\* cell_weather as the features of predict_with_cause
\* (risk_segments.py:198-199).
CellWeather(gw, center) ==
    [vehicle |-> "CAR", hour |-> NoVal, curvKind |-> "list", curvS |-> 0,
     curvL |-> <<CellCurvature(center)>>, wet |-> NoVal, vf |-> NoVal,
     isRain |-> (gw.is_rain = 1), precip |-> gw.precipitation]

\* The is_wet column of a frame (model.py:393-398).
FrameIsWet(gw) ==
    IF gw.is_wet # NoVal THEN gw.is_wet
    ELSE IF gw.precipitation > 100 THEN 1 ELSE 0

(***************************************************************************)
(* The artifacts are not part of the repository.  These three stand for    *)
(* trained models: each is a function of columns of the frame it is given  *)
(* (model.py:424-440, 282-283), the time columns among them.  Risk and     *)
(* rate are milli.                                                         *)
(***************************************************************************)
GridRiskModel(x, is_wet) == 300 + 10 * x.hour + 100 * x.is_weekend + 50 * is_wet
GridRateModel(x, is_wet) == 5 + 5 * x.dow + x.hour \div 4 + 5 * is_wet
GridCauseModel(x, is_wet) ==
    IF x.is_weekend = 1 THEN "Overtaking"
    ELSE IF x.hour >= 12 THEN "Speeding"
    ELSE IF is_wet = 1 THEN "Slippery road" ELSE "Sharp bend"

\* What the files and the models answer during one cell's call, the clock
\* reading now.
CellIO(view, hour, gw, now) ==
    [view |-> view,
     out |-> [risk |-> Returned(<<GridRiskModel(
                          prepare_features_for_xgboost(NoTimestamp, hour, now),
                          FrameIsWet(gw))>>),
              rate |-> Returned(<<GridRateModel(
                          prepare_features_for_xgboost(NoTimestamp, hour, now),
                          FrameIsWet(gw))>>),
              cause |-> Returned(<<GridCauseModel(
                           prepare_features_for_classifier(NoTimestamp, now),
                           FrameIsWet(gw))>>)],
     csv |-> NoCsv]

\* generate_segment_id (risk_segments.py:25-30): the centre rounded to three
\* decimals, as <<lat, lon>> in units of 1e-3 degree.
generate_segment_id(lat, lon) == <<(lat + 10) \div 20, (lon + 10) \div 20>>

\* The loop body with no except clause: a cell that raises ends the call
\* with the cells before it.
CellAfterPredictionAborts(center, failing, acc, g) ==
    [h |-> g.h, thr |-> g.thr,
     inv |-> [r \in Roles |-> acc.inv[r] + g.inv[r]],
     scored |-> Append(acc.scored, center),
     aborted |-> acc.aborted \/ g.raised \/ failing,
     segments |->
        IF acc.aborted \/ g.raised \/ failing THEN acc.segments
        ELSE Append(acc.segments,
                    [center |-> center,
                     segment_id |-> generate_segment_id(center[1], center[2]),
                     risk_0_100 |-> g.norm[1] \div (HundredPoints \div 100),
                     rate_pred |-> g.rates[1],
                     top_cause |-> g.causes[1]])]

\* The loop body after predict_with_cause has returned g
\* (risk_segments.py:201-245).  failing: building the cell's feature from
\* the prediction raises.  An exception, there or in predict_with_cause,
\* skips the cell.  scored lists the centres predict_with_cause was called
\* for.
CellAfterPrediction(center, failing, acc, g) ==
    [h |-> g.h, thr |-> g.thr,
     inv |-> [r \in Roles |-> acc.inv[r] + g.inv[r]],
     scored |-> Append(acc.scored, center),
     aborted |-> FALSE,
     segments |->
        IF g.raised \/ failing THEN acc.segments
        ELSE Append(acc.segments,
                    [center |-> center,
                     segment_id |-> generate_segment_id(center[1], center[2]),
                     risk_0_100 |-> g.norm[1] \div (HundredPoints \div 100),
                     rate_pred |-> g.rates[1],
                     top_cause |-> g.causes[1]])]

\* The cells from the k-th on.
RECURSIVE ScoreCells(_, _, _, _, _, _, _)
ScoreCells(centers, k, hour, vehicle_type, gw, env, acc) ==
    IF k > Len(centers) THEN acc
    ELSE ScoreCells(centers, k + 1, hour, vehicle_type, gw, env,
             CellAfterPrediction(centers[k], k \in env.fails, acc,
                 predict_with_cause(1, CellWeather(gw, centers[k]), vehicle_type, hour,
                                    acc.h, CellIO(env.view, hour, gw, env.now), acc.thr)))

\* A vehicle_type of None.
NoVehicle == "None"

\* generate_risk_segments with its defaults resolved (risk_segments.py:123-134).
generate_risk_segments(bbox, hour, vehicle_type, weather_input, env, h, thr) ==
    ScoreCells(GridCenters(IF bbox = <<>> THEN <<804300, 69400, 805500, 70300>> ELSE bbox), 1,
               IF hour = NoVal THEN env.now.hour ELSE hour,
               IF vehicle_type = NoVehicle THEN "CAR" ELSE vehicle_type,
               GridWeather(weather_input), env,
               [h |-> h, thr |-> thr, inv |-> NoInv, scored |-> <<>>,
                aborted |-> FALSE, segments |-> <<>>])

GridCommit(req, env, g) ==
    /\ TotalLoads + g.inv["risk"] + g.inv["rate"] + g.inv["cause"] <= MaxLoads
    /\ handle' = g.h
    /\ loads' = [r \in Roles |-> loads[r] + g.inv[r]]
    /\ thresholds' = g.thr
    /\ res' = [op |-> "generate_risk_segments", req |-> req, now |-> env.now,
               view |-> env.view, fails |-> env.fails,
               pre_h |-> handle, pre_thr |-> thresholds,
               h |-> g.h, scored |-> g.scored, segments |-> g.segments]

NoGridWeather ==
    [given |-> FALSE, temperature |-> NoVal, humidity |-> NoVal,
     precipitation |-> NoVal, wind_speed |-> NoVal, is_wet |-> NoVal]

GridRequests ==
    { [bbox |-> bbox, hour |-> q[1], vehicle_type |-> q[2], weather |-> q[3]] :
        bbox \in {<<805000, 71000, 805008, 71008>>, <<803900, 69950, 804020, 70070>>},
        q \in {<<8, NoVehicle, NoGridWeather>>, <<NoVal, NoVehicle, [NoGridWeather EXCEPT !.given = TRUE]>>,
               <<8, "MOTORCYCLE",
                 [given |-> TRUE, temperature |-> 24000, humidity |-> 90000,
                  precipitation |-> 2500, wind_speed |-> 5000, is_wet |-> NoVal]>>} }

GridEnvs ==
    { [view |-> view, now |-> now, fails |-> fails] :
        view \in {[r \in Roles |-> NoFiles], [r \in Roles |-> <<"none", "ok">>],
                  [r \in Roles |-> IF r = "risk" THEN <<"none", "ok">> ELSE NoFiles]},
        now \in {[hour |-> 5, dow |-> 2], [hour |-> 5, dow |-> 5]},
        fails \in {{}, {1}, {2, 3}} }

NextGrid ==
    \E req \in GridRequests, env \in GridEnvs :
        GridCommit(req, env,
                   generate_risk_segments(req.bbox, req.hour, req.vehicle_type,
                                          req.weather, env, handle, thresholds))

SpecGrid == Init /\ [][NextGrid]_vars

\* C13: two successive grid calls with the same box, the same given hour,
\* vehicle and weather, made with the roles in the same states and no cell
\* failing, return the same cells with the same risk_0_100 and top cause.
C13_GridDeterministic ==
    [][(/\ res.op = "generate_risk_segments" /\ res'.op = "generate_risk_segments"
        /\ res'.req = res.req /\ res.req.hour # NoVal /\ res'.h = res.h
        /\ res.fails = {} /\ res'.fails = {}) =>
          /\ Len(res'.segments) = Len(res.segments)
          /\ \A k \in 1..Len(res.segments) :
                /\ res'.segments[k].center = res.segments[k].center
                /\ res'.segments[k].risk_0_100 = res.segments[k].risk_0_100
                /\ res'.segments[k].top_cause = res.segments[k].top_cause]_vars

(***************************************************************************)
(* The geofence of the /score handler.                                     *)
(***************************************************************************)

\* The service rectangle: latitude 7.0 to 7.5, longitude 80.4 to 80.9, in
\* hundredths of a degree.
C15_InBounds(coord) ==
    /\ 700 <= coord[1] /\ coord[1] <= 750
    /\ 8040 <= coord[2] /\ coord[2] <= 8090

C15_Kept(coordinates) == SelectSeq(coordinates, C15_InBounds)

C15_Straddling(coordinates) ==
    /\ Len(C15_Kept(coordinates)) > 0
    /\ Len(C15_Kept(coordinates)) < Len(coordinates)

\* C15: a route of two or more points with fewer than two of them inside the
\* service rectangle is rejected with status 400, and one with two or more
\* inside is not; the coordinate list of a scored response is the in-order
\* subsequence of the in-bounds points, strictly shorter than the input for
\* a straddling route.
C15_GeofenceFilter ==
    (res.op = "score" /\ Len(res.req.coordinates) >= 2) =>
        /\ Len(C15_Kept(res.req.coordinates)) < 2 => res.status = 400
        /\ Len(C15_Kept(res.req.coordinates)) >= 2 => res.status # 400
        /\ res.status = 200 =>
              /\ res.coords = C15_Kept(res.req.coordinates)
              /\ C15_Straddling(res.req.coordinates) =>
                    Len(res.coords) < Len(res.req.coordinates)

\* C15 witness: a straddling route of three points scored on its two
\* in-bounds points.
C15_Witness ==
    /\ res.op = "score" /\ res.status = 200
    /\ Len(res.req.coordinates) = 3
    /\ C15_Straddling(res.req.coordinates)
    /\ res.coords = C15_Kept(res.req.coordinates)
    /\ Len(res.coords) = 2

\* C15: a route with no point inside the service rectangle is rejected, and
\* every straddling route is scored, on the in-order subsequence of its
\* in-bounds points.
C15_StraddlingIsScored ==
    (res.op = "score" /\ Len(res.req.coordinates) >= 2) =>
        /\ Len(C15_Kept(res.req.coordinates)) = 0 => res.status = 400
        /\ C15_Straddling(res.req.coordinates) =>
              /\ res.status # 400
              /\ res.status = 200 => res.coords = C15_Kept(res.req.coordinates)

(***************************************************************************)
(* Request validation of the /score handler.                               *)
(***************************************************************************)

\* C16: a /score request with fewer than two coordinates, or with an hour
\* outside 0..23, is answered with status 400.
C16_InvalidInputRejected ==
    (/\ res.op = "score"
     /\ \/ Len(res.req.coordinates) < 2
        \/ res.req.hour # NoVal /\ res.req.hour \notin 0..23) =>
        res.status = 400

(***************************************************************************)
(* Manual weather of the /score handler.                                   *)
(***************************************************************************)

\* C17: a /score request on a route with two or more in-bounds points and a
\* manual weather input is scored whichever of its fields are absent.
C17_AbsentWeatherFieldsDefault ==
    (/\ res.op = "score" /\ res.req.weather.given
     /\ Len(filter_coordinates_in_ginigathena(res.req.coordinates)) >= 2) =>
        res.status = 200

(***************************************************************************)
(* The cells of a grid response.                                           *)
(***************************************************************************)

\* The service rectangle on a centre, in units of 0.5e-4 degree.
C21_Inside(center) ==
    /\ 140000 <= center[1] /\ center[1] <= 150000
    /\ 1608000 <= center[2] /\ center[2] <= 1618000

\* C21: every cell a grid call emits has its centre inside the service
\* rectangle, and predict_with_cause is called for no centre outside it.
C21_CellsInsideRectangle ==
    res.op = "generate_risk_segments" =>
        /\ \A k \in 1..Len(res.segments) : C21_Inside(res.segments[k].center)
        /\ \A k \in 1..Len(res.scored) : C21_Inside(res.scored[k])

\* C21 witness: the box across the corner of the rectangle, two of whose
\* nine cells are scored and emitted.
C21_Witness ==
    /\ res.op = "generate_risk_segments"
    /\ res.req.bbox = <<803900, 69950, 804020, 70070>>
    /\ res.fails = {}
    /\ Len(res.scored) = 2 /\ Len(res.segments) = 2
    /\ \A k \in 1..2 : C21_Inside(res.segments[k].center)

\* The cells of ref from the k-th on, those at the places in fails left out.
RECURSIVE C22_Without(_, _, _)
C22_Without(ref, fails, k) ==
    IF k > Len(ref) THEN <<>>
    ELSE (IF k \in fails THEN <<>> ELSE <<ref[k]>>) \o C22_Without(ref, fails, k + 1)

\* C22: a grid call in which some cells raise returns the cells of the same
\* call without failures, in order, less the failing ones.
C22_FailingCellsSkipped ==
    res.op = "generate_risk_segments" =>
        res.segments =
            C22_Without(generate_risk_segments(
                            res.req.bbox, res.req.hour, res.req.vehicle_type,
                            res.req.weather,
                            [view |-> res.view, now |-> res.now, fails |-> {}],
                            res.pre_h, res.pre_thr).segments,
                        res.fails, 1)

\* C22 witness: the second and third of nine cells raise with the models
\* loaded, and the other seven are returned.
C22_Witness ==
    /\ res.op = "generate_risk_segments"
    /\ res.fails = {2, 3}
    /\ res.h["risk"] = LOADED
    /\ Len(res.scored) = 9
    /\ Len(res.segments) = 7

\* C30: no two cells of one grid response have the same segment id.
C30_SegmentIdsDistinct ==
    res.op = "generate_risk_segments" =>
        \A i, j \in 1..Len(res.segments) :
            i # j => res.segments[i].segment_id # res.segments[j].segment_id

(***************************************************************************)
(* calculate_prediction_confidence (model.py:696-750).  predictions and    *)
(* the threshold are milli; the intermediate values are in units of 1e-6,  *)
(* in which the variance of milli values is a whole number over n*n; the   *)
(* returned numbers are rounded to three decimals, that is to milli.  The  *)
(* certainty is held as the text of the value returned: "0.9", "0.5",      *)
(* "0.2", or the string "low" of the empty case.                           *)
(***************************************************************************)
Abs(x) == IF x < 0 THEN -x ELSE x

\* round(x, 3) of a value in units of 1e-6, milli.
Round3(x) == (x + 500) \div 1000

\* The record returned for a combined confidence (model.py:733-750).
ConfidenceRecord(avg_pred, threshold, distance, consistency, combined) ==
    [confidence |-> Round3(combined),
     certainty |-> IF combined > 700000 THEN "0.9"
                   ELSE IF combined > 400000 THEN "0.5" ELSE "0.2",
     distance_from_threshold |-> Round3(distance),
     consistency |-> Round3(consistency),
     avg_prediction |-> Round3(avg_pred),
     threshold |-> threshold]

\* From the distance on (model.py:721-734).
ConfidenceOfDistance(avg_pred, threshold, distance, consistency) ==
    ConfidenceRecord(avg_pred, threshold, distance, consistency,
                     (6 * Min2(1000000, 2 * distance) + 4 * consistency) \div 10)

\* consistency (model.py:724-729): n = len(predictions), s their sum, q the
\* sum of their squares.
Consistency(n, s, q) ==
    IF n > 1
    THEN (IF 1000000 - 10 * ((n * q - s * s) \div (n * n)) > 0
          THEN 1000000 - 10 * ((n * q - s * s) \div (n * n)) ELSE 0)
    ELSE 1000000

\* With the thresholds loaded (model.py:713-719).
ConfidenceWithThreshold(predictions, threshold) ==
    ConfidenceOfDistance(
        (1000 * SumSeq(predictions)) \div Len(predictions), threshold,
        Abs((1000 * SumSeq(predictions)) \div Len(predictions) - 1000 * threshold),
        Consistency(Len(predictions), SumSeq(predictions), (SumSeq([i \in 1..Len(predictions) |-> predictions[i] * predictions[i]]))))

calculate_prediction_confidence(predictions, vehicle_type, thr2) ==
    IF Len(predictions) = 0 THEN [confidence |-> 0, certainty |-> "low"]
    ELSE ConfidenceWithThreshold(predictions, ThresholdFor(thr2.tab, vehicle_type))

ConfidenceCommit(predictions, vehicle_type, thr2) ==
    /\ thresholds' = IF Len(predictions) = 0 THEN thresholds ELSE thr2
    /\ res' = [op |-> "calculate_prediction_confidence", predictions |-> predictions,
               vehicle_type |-> vehicle_type,
               ret |-> calculate_prediction_confidence(predictions, vehicle_type, thr2)]
    /\ UNCHANGED <<handle, loads>>

\* Raw predictions: lists of up to three values.
ConfidenceValues == {0, 300, 500, 1000}

NextConfidence ==
    \E predictions \in ({<<>>} \cup { <<a>> : a \in ConfidenceValues }
                          \cup { <<a, b>> : a \in ConfidenceValues, b \in ConfidenceValues }
                          \cup { <<a, b, 500>> : a \in ConfidenceValues, b \in ConfidenceValues }),
       vehicle_type \in {"MOTORCYCLE", "CAR", "BUS"} :
        ConfidenceCommit(predictions, vehicle_type,
                         load_vehicle_thresholds(thresholds, NoCsv))

SpecConfidence == Init /\ [][NextConfidence]_vars

\* The distance of the mean from the vehicle's threshold, in units of 1e-6.
C23_Distance ==
    Abs((1000 * SumSeq(res.predictions)) \div Len(res.predictions)
        - 1000 * (CASE res.vehicle_type = "MOTORCYCLE" -> 450
                    [] res.vehicle_type = "BUS" -> 550
                    [] OTHER -> 500))

\* C23: the record calculate_prediction_confidence returns has
\* distance_from_threshold = |mean - threshold|, confidence =
\* min(1, 2 * distance), and a certainty of 0.9, 0.5 or 0.2, for every list.
C23_ConfidenceRecord ==
    res.op = "calculate_prediction_confidence" =>
        /\ DOMAIN res.ret = {"confidence", "certainty", "distance_from_threshold",
                             "consistency", "avg_prediction", "threshold"}
        /\ res.ret.certainty \in {"0.9", "0.5", "0.2"}
        /\ res.ret.distance_from_threshold = Round3(C23_Distance)
        /\ res.ret.confidence = Round3(Min2(1000000, 2 * C23_Distance))

(***************************************************************************)
(* The value predict_segment_scores returns.                               *)
(***************************************************************************)

\* C25: what predict_segment_scores returns has one entry per route
\* coordinate, in every model state.
C25_OneScorePerCoordinate ==
    (res.op = "predict_segment_scores" /\ ~res.raised) =>
        Len(res.returned) = res.n

(***************************************************************************)
(* The curvature column of a feature frame (model.py:432-444) for n        *)
(* points.  curvature is what weather.get("curvature", 0.0) finds: kind    *)
(* "absent", "scalar" (value s, milli) or "list" (value l).  An empty list *)
(* of another length than n raises IndexError.                             *)
(***************************************************************************)
FrameCurvature(curvature, n) ==
    IF curvature.kind = "list"
    THEN IF Len(curvature.l) = n THEN [raised |-> FALSE, col |-> curvature.l]
         ELSE IF Len(curvature.l) = 0 THEN [raised |-> TRUE, col |-> <<>>]
         ELSE [raised |-> FALSE, col |-> Rep(n, curvature.l[1])]
    ELSE IF curvature.kind = "scalar" THEN [raised |-> FALSE, col |-> Rep(n, curvature.s)]
    ELSE [raised |-> FALSE, col |-> Rep(n, 0)]

(***************************************************************************)
(* SpecCurvature: per_point_curvature and the curvature column on every    *)
(* route of up to MaxRoute points over four places, which gives routes     *)
(* with repeated points, collinear points and right-angle bends.           *)
(***************************************************************************)
MaxRoute == 3

RECURSIVE RoutesOfLen(_)
RoutesOfLen(n) ==
    IF n = 0 THEN {<<>>}
    ELSE { Append(r, p) : r \in RoutesOfLen(n - 1), p \in {<<700, 8040>>, <<710, 8040>>, <<720, 8040>>, <<710, 8050>>} }

CurvatureRoutes == UNION { RoutesOfLen(n) : n \in 0..MaxRoute }

\* What a caller puts under "curvature" for a route of n points: nothing, a
\* scalar, a list of n values, a list of n + 1 values, an empty list.
CurvatureInputs(n) ==
    {[kind |-> "absent", s |-> 0, l |-> <<>>],
     [kind |-> "scalar", s |-> 300, l |-> <<>>],
     [kind |-> "list", s |-> 0, l |-> [i \in 1..n |-> 100 * i]],
     [kind |-> "list", s |-> 0, l |-> [i \in 1..(n + 1) |-> 100 * i]],
     [kind |-> "list", s |-> 0, l |-> <<>>]}

PerPointCurvatureCall(coords) ==
    /\ res' = [op |-> "per_point_curvature", coords |-> coords,
               ret |-> per_point_curvature(coords)]
    /\ UNCHANGED <<handle, loads, thresholds>>

FrameCurvatureCall(coords, curvature) ==
    /\ res' = [op |-> "base_feature_df", coords |-> coords, curvature |-> curvature,
               frame |-> FrameCurvature(curvature, Len(coords))]
    /\ UNCHANGED <<handle, loads, thresholds>>

NextCurvature ==
    \/ \E coords \in CurvatureRoutes : PerPointCurvatureCall(coords)
    \/ \E coords \in CurvatureRoutes :
          \E curvature \in CurvatureInputs(Len(coords)) : FrameCurvatureCall(coords, curvature)

SpecCurvature == Init /\ [][NextCurvature]_vars

\* C24: the curvature column of a frame of n points is the caller's list
\* when it has n entries, the caller's scalar at every point, and in every
\* other case the per-point curvature computed from the route.
C24_CurvatureSource ==
    res.op = "base_feature_df" =>
        /\ ~res.frame.raised
        /\ res.frame.col =
              IF res.curvature.kind = "list" /\ Len(res.curvature.l) = Len(res.coords)
              THEN res.curvature.l
              ELSE IF res.curvature.kind = "scalar"
              THEN [i \in 1..Len(res.coords) |-> res.curvature.s]
              ELSE per_point_curvature(res.coords)

\* C26: per_point_curvature returns as many values as the route has points,
\* the first and the last are 0, and every value is between 0 and pi.
C26_CurvatureShape ==
    res.op = "per_point_curvature" =>
        /\ Len(res.ret) = Len(res.coords)
        /\ Len(res.ret) > 0 => res.ret[1] = 0 /\ res.ret[Len(res.ret)] = 0
        /\ \A i \in 1..Len(res.ret) : 0 <= res.ret[i] /\ res.ret[i] <= 3142

\* C26 witness: a route of three points whose first two coincide, with a
\* quarter turn reported at the middle point.
C26_Witness ==
    /\ res.op = "per_point_curvature"
    /\ Len(res.coords) = 3
    /\ res.coords[1] = res.coords[2]
    /\ res.ret = <<0, 1571, 0>>

(***************************************************************************)
(* get_model_health (routers/models.py:129-159).  The handler imports the  *)
(* globals of the gateway when it is called and tests each against None.   *)
(***************************************************************************)
get_model_health(h, thr) ==
    [status |-> "healthy",
     models |->
        [xgboost_realtime |->
            [loaded |-> h["risk"] # UNLOADED,
             status |-> IF h["risk"] # UNLOADED THEN "ready" ELSE "fallback_mode"],
         cause_classifier |->
            [loaded |-> h["cause"] # UNLOADED,
             status |-> IF h["cause"] # UNLOADED THEN "ready" ELSE "not_loaded"],
         rate_model |->
            [loaded |-> h["rate"] # UNLOADED,
             status |-> IF h["rate"] # UNLOADED THEN "ready" ELSE "not_loaded"],
         vehicle_thresholds |->
            [loaded |-> thr.set,
             status |-> IF thr.set /\ DOMAIN thr.tab # {} THEN "ready" ELSE "not_loaded"]],
     prediction_mode |-> IF h["risk"] # UNLOADED THEN "xgboost" ELSE "fallback"]

HealthCall ==
    /\ res' = [op |-> "get_model_health", ret |-> get_model_health(handle, thresholds)]
    /\ UNCHANGED <<handle, loads, thresholds>>

\* SpecHealth: the loaders called from the handlers, without a path
\* argument, and the health report between them.
NextHealth ==
    \/ \E r \in Roles, env \in PathStates, def \in FileStates :
          LoadCall(r, "none", env, def)
    \/ HealthCall

SpecHealth == Init /\ [][NextHealth]_vars

\* C27: the health report gives a role as loaded and ready exactly when its
\* handle is LOADED, and the prediction mode as the model's exactly when the
\* risk handle is LOADED.
C27_HealthTellsFallback ==
    res.op = "get_model_health" =>
        /\ res.ret.models.xgboost_realtime.loaded <=> handle["risk"] = LOADED
        /\ res.ret.models.xgboost_realtime.status = "ready" <=> handle["risk"] = LOADED
        /\ res.ret.models.cause_classifier.loaded <=> handle["cause"] = LOADED
        /\ res.ret.models.rate_model.loaded <=> handle["rate"] = LOADED
        /\ res.ret.prediction_mode = "xgboost" <=> handle["risk"] = LOADED

(***************************************************************************)
(* The two frames of one scoring call.                                     *)
(***************************************************************************)

\* C29: in one scoring call the frame of the cause classifier has the same
\* hour as the frame of the risk regressor.
C29_SameHourInBothFrames ==
    res.op = "predict_with_cause" => res.cause_frame.hour = res.risk_frame.hour

(***************************************************************************)
(* The two risk-stage calls of one /score request in manual weather mode   *)
(* (routers/risk.py:57-97): predict_with_cause predicts on a frame built    *)
(* from the weather dict with timestamp and hour added (model.py:630-635,   *)
(* 507-513); the call for the confidence metrics predicts on a frame built  *)
(* from build_features' dict, which holds is_wet but no hour                *)
(* (feature_engineering.py:27-40, routers/risk.py:77-79).                   *)
(***************************************************************************)
ScoringRiskFrame(req, weather, now) ==
    [time |-> prepare_features_for_xgboost(req.timestamp, req.hour, now),
     temperature |-> weather.temperature, humidity |-> weather.humidity,
     precipitation |-> weather.precipitation, wind_speed |-> weather.wind_speed,
     is_wet |-> IF weather.precipitation > 100 THEN 1 ELSE 0]

ConfidenceRiskFrame(req, weather, now) ==
    [time |-> prepare_features_for_xgboost(req.timestamp, NoVal, now),
     temperature |-> weather.temperature, humidity |-> weather.humidity,
     precipitation |-> weather.precipitation, wind_speed |-> weather.wind_speed,
     is_wet |-> IF weather.is_rain THEN 1 ELSE 0]

\* The manual weather of a /score request: dry, raining, and dry with the
\* road declared wet; with and without an hour (schemas/risk.py).
FrameRequests ==
    [timestamp : Timestamps, hour : {NoVal, 8},
     weather : {[given |-> TRUE, temperature |-> 25, humidity |-> 60,
                 precipitation |-> 0, wind_speed |-> 5, is_wet |-> 0],
                [given |-> TRUE, temperature |-> 25, humidity |-> 60,
                 precipitation |-> 2500, wind_speed |-> 5, is_wet |-> NoVal],
                [given |-> TRUE, temperature |-> 25, humidity |-> 60,
                 precipitation |-> 0, wind_speed |-> 5, is_wet |-> 1]}]

ScoreFramesCall(req, now) ==
    /\ res' = [op |-> "score", req |-> req, now |-> now,
               scoring |-> ScoringRiskFrame(req, ManualWeather(req.weather), now),
               confidence |-> ConfidenceRiskFrame(req, ManualWeather(req.weather), now)]
    /\ UNCHANGED <<handle, loads, thresholds>>

NextScoreFrames == \E req \in FrameRequests, now \in Clocks : ScoreFramesCall(req, now)

SpecScoreFrames == Init /\ [][NextScoreFrames]_vars

\* C28: the frame the risk regressor predicts on for the confidence metrics
\* equals the one it predicts on for the segment scores of the same
\* request: same hour, wetness, weather fields and timestamp.
C28_ConfidenceSeesScoringInputs ==
    res.op = "score" => res.confidence = res.scoring

====
